---- MODULE Spec2Model ----
(***************************************************************************)
(* A model of the trading-backend test harness (src/test.py):               *)
(* TradingBackendTester.run_all_tests driving its REST checks, the          *)
(* socket.io receive handlers, the realtime checks and the result recorder. *)
(*                                                                          *)
(* The service under test is the environment.  A REST call returns any      *)
(* response of the endpoint's response set; the realtime server delivers    *)
(* any message at any moment the connection is up, and the connection may   *)
(* drop at any moment.  Every environment behaviour other than the nominal  *)
(* one (the nominal REST response; no inbound message; no drop) is counted  *)
(* in envEvents and bounded by MaxEnvEvents.                                *)
(***************************************************************************)
EXTENDS Integers, Sequences, FiniteSets, TLC

(* ------------------------------- bounds -------------------------------- *)

\* Non-nominal environment behaviours in one run.
MaxEnvEvents == 2

\* Longest candlestick data list a response carries.
MaxCandles == 2

\* Concurrent callers of record_test_result, and calls each of them makes.
NumWorkers == 2

CallsPerWorker == 2

\* Probes of one call of test_api_response_times that fail or are slow.
MaxBadProbes == 3

\* Longest log print_test_summary is applied to on its own.
MaxRecorded == 20

\* Requests of one run_trading_test the service answers with an error, a
\* status other than 200 or a body that lacks what the caller reads.
MaxTradingFaults == 2

\* Longest list the timestamp parser reads from stdin.
MaxBatch == 3

(* -------------------------- program constants -------------------------- *)

\* run_all_tests(websocket_duration=5)
WebsocketDuration == 5

\* self.test_websocket_trading_events(3)
TradingEventsDuration == 3

\* success = avg_time < 3000
ResponseTimeCeilingMs == 3000

\* for _ in range(3)
ProbesPerEndpoint == 3

\* test_trading.py: for i in range(3)
NumBuys == 3

\* quantity = random.randint(10, 30)
MinBuy == 10

MaxBuy == 30

\* sell_qty = min(qty, random.randint(5, 15))
MinSell == 5

MaxSell == 15

\* self.symbols = resp.json()[:5]
SymbolsKept == 5

\* for symbol, qty in list(holdings.items())[:2]
SellsAtMost == 2

(* ------------------------------ the state ------------------------------ *)

VARIABLES
    pc,                  \* position of the main control flow in run_all_tests
    i,                   \* index of the current element in a check's for loop
    test_results,        \* self.test_results
    tests_run,           \* self.tests_run
    tests_passed,        \* self.tests_passed
    tests_failed,        \* self.tests_failed
    symbols,             \* run_all_tests' local: what test_symbols_endpoint returned
    ws_ok,               \* what test_websocket_connection returned
    websocket_messages,  \* contents of the list bound to self.websocket_messages
    bufId,               \* identity of that list object (fresh at every rebinding)
    sio,                 \* state of self.sio: "disconnected", "connected", "reconnecting"
    emitted,             \* the events self.sio.emit has sent, in order
    handler,             \* the receive thread: a handler between its load and its append
    slept,               \* seconds of the current time.sleep that have elapsed
    delivered,           \* every inbound message so far, in arrival order
    clearedAt,           \* Len(delivered) when websocket_messages was last rebound
    lastResponse,        \* kind and status of the last response a check examined
    lastBody,            \* decoded body of that response ("" when the check reads none)
    envEvents,           \* non-nominal environment behaviours so far
    workers,             \* concurrent callers of record_test_result
    report,              \* what print_test_summary has printed
    latency,             \* a call of test_api_response_times, probe by probe
    trading,             \* TradingTester.run_trading_test (src/test_trading.py)
    parser               \* main of src/backend/timestamp_parser.py

vars == <<pc, i, test_results, tests_run, tests_passed, tests_failed, symbols,
          ws_ok, websocket_messages, bufId, sio, emitted, handler, slept,
          delivered, clearedAt, lastResponse, lastBody, envEvents, workers,
          report, latency, trading, parser>>

otherPrograms == <<trading, parser>>

recorderVars == <<test_results, tests_run, tests_passed, tests_failed>>

realtimeVars == <<websocket_messages, bufId, sio, emitted, handler, slept,
                  delivered, clearedAt>>

mainVars == <<pc, i, symbols, ws_ok, realtimeVars, lastResponse, lastBody, envEvents>>

(* -------------------------- values and helpers ------------------------- *)

Statuses == {200, 400, 401, 403, 404, 503}

SymbolUniverse == {"AAPL", "MSFT"}

NominalSymbols == <<"AAPL", "MSFT">>

EventKinds == {"tick", "historical_data", "portfolio_update", "leaderboard_update"}

\* The inbound messages the server may send: a tick of any symbol, the
\* history and a portfolio update of one symbol, the leaderboard broadcast.
InboundMessages ==
    {[event |-> "tick", data |-> s] : s \in SymbolUniverse}
    \cup {[event |-> k, data |-> "AAPL"] : k \in {"historical_data", "portfolio_update"}}
    \cup {[event |-> "leaderboard_update", data |-> "board"]}

NoMessage == [event |-> "none", data |-> "none", timestamp |-> 0]

IdleHandler == [pc |-> "idle", msg |-> NoMessage, ref |-> 0]

NoResponse == [kind |-> "none", status |-> 0]

Workers == 1 .. NumWorkers

IdleWorker == [pc |-> "idle", success |-> FALSE, reg |-> 0, calls |-> 0]

\* test_api_response_times not called yet: its loop position, its local
\* response_times, the probes issued to the current endpoint, the probes
\* issued to the endpoints done, and the non-nominal probes so far.
IdleLatency ==
    [pc |-> "idle", endpoint |-> 1, response_times |-> <<>>, issued |-> <<>>,
     probed |-> <<>>, bad |-> 0]

\* A test name: the check's fixed text and the parameters embedded in it.
TestName(check, args) == [check |-> check, args |-> args]

Message(text) == [text |-> text, names |-> <<>>, num |-> 0]

MessageNames(text, names) == [text |-> text, names |-> names, num |-> 0]

MessageNum(text, num) == [text |-> text, names |-> <<>>, num |-> num]

\* The entries of a log whose test name is of the given check.
OutcomesOf(log, check) ==
    SelectSeq(log, LAMBDA r : r.test.check = check)

Connected == sio = "connected"

\* run_trading_test not called yet: the TradingTester as __init__ leaves it,
\* run_trading_test's locals, what it has printed of its final statements,
\* every request it has issued, and the faulty answers so far.
IdleTrading ==
    [pc |-> "idle", token |-> "", headers |-> "", user |-> "none", symbols |-> <<>>,
     trades_executed |-> <<>>, initial_portfolio |-> "none",
     final_portfolio |-> "none", holdings |-> <<>>, k |-> 1, verdict |-> FALSE,
     calls |-> <<>>, faults |-> 0]

\* timestamp_parser.main not started: stdin unread, data unbound, nothing
\* written to stdout.
IdleParser ==
    [pc |-> "idle", stdin |-> [json |-> FALSE, shape |-> "none", value |-> <<>>],
     data |-> "unbound", at |-> 1, results |-> <<>>, stdout |-> <<>>]

(* ----------------------------- the recorder ---------------------------- *)

\* record_test_result, called by the single main control flow.
RecordTestResultNoFailedCount(test_name, success, message) ==
    /\ tests_run' = tests_run + 1
    /\ tests_passed' = IF success THEN tests_passed + 1 ELSE tests_passed
    /\ tests_failed' = tests_failed
    /\ test_results' = Append(test_results,
           [test |-> test_name, success |-> success, message |-> message])

\* A recorder that counts every outcome and logs the failures only.
RecordTestResultLogsFailures(test_name, success, message) ==
    /\ tests_run' = tests_run + 1
    /\ tests_passed' = IF success THEN tests_passed + 1 ELSE tests_passed
    /\ tests_failed' = IF success THEN tests_failed ELSE tests_failed + 1
    /\ test_results' =
           IF success
           THEN test_results
           ELSE Append(test_results,
                    [test |-> test_name, success |-> success, message |-> message])

\* A recorder that puts the newest outcome first.
RecordTestResultPrepends(test_name, success, message) ==
    /\ tests_run' = tests_run + 1
    /\ tests_passed' = IF success THEN tests_passed + 1 ELSE tests_passed
    /\ tests_failed' = IF success THEN tests_failed ELSE tests_failed + 1
    /\ test_results' =
           <<[test |-> test_name, success |-> success, message |-> message]>>
               \o test_results

RecordTestResult(test_name, success, message) ==
    /\ tests_run' = tests_run + 1
    /\ tests_passed' = IF success THEN tests_passed + 1 ELSE tests_passed
    /\ tests_failed' = IF success THEN tests_failed ELSE tests_failed + 1
    /\ test_results' = Append(test_results,
           [test |-> test_name, success |-> success, message |-> message])

(* ---------------------------- the environment -------------------------- *)

\* requests.get / requests.post: the service answers r; an answer other than
\* the endpoint's nominal one counts as an environment event.
Served(r, nominal) ==
    /\ r = nominal \/ envEvents < MaxEnvEvents
    /\ envEvents' = IF r = nominal THEN envEvents ELSE envEvents + 1
    /\ lastResponse' = [kind |-> r.kind, status |-> r.status]
    /\ lastBody' = r.body

(* ------------------------- the order of the run ------------------------ *)

\* run_all_tests calls its checks in this order.
RunOrderLeaderboardFirst ==
    <<"health", "symbols", "history", "candlestick",
      "leaderboard", "auth", "validation", "admin", "pagination", "shorts",
      "invalid", "ws_connect", "md_start", "te_start", "ws_disconnect", "perf",
      "summary">>

RunOrder ==
    <<"health", "symbols", "history", "candlestick",
      "auth", "validation", "leaderboard", "admin", "pagination", "shorts",
      "invalid", "ws_connect", "md_start", "te_start", "ws_disconnect", "perf",
      "summary">>

\* The conditions under which run_all_tests calls a check.
Called(p, syms, wsok) ==
    CASE p \in {"history", "candlestick", "perf"} -> syms # <<>>
      [] p = "md_start" -> wsok /\ syms # <<>>
      [] p \in {"te_start", "ws_disconnect"} -> wsok
      [] OTHER -> TRUE

PositionOf(p) == CHOOSE n \in 1 .. Len(RunOrder) : RunOrder[n] = p

\* The check run_all_tests calls after check p has returned.
NextPhase(p, syms, wsok) ==
    LET later == {n \in PositionOf(p) + 1 .. Len(RunOrder) :
                      Called(RunOrder[n], syms, wsok)}
    IN  RunOrder[CHOOSE n \in later : \A m \in later : n <= m]

\* Control moves to the next check.
Return(p, syms, wsok) ==
    /\ pc' = NextPhase(p, syms, wsok)
    /\ i' = 1

\* The end of one iteration of check p's for loop over n elements.
Iterate(p, n) ==
    IF i < n
    THEN pc' = pc /\ i' = i + 1
    ELSE Return(p, symbols, ws_ok)

\* An exception no handler catches leaves run_all_tests.
Propagate ==
    /\ pc' = "crashed"
    /\ i' = i
    /\ UNCHANGED recorderVars

(* --------------------------- REST responses ---------------------------- *)

\* A raised requests.exceptions.RequestException (connection error, timeout).
Err(body) == [kind |-> "err", status |-> 0, body |-> body]

Http(status, body) == [kind |-> "http", status |-> status, body |-> body]

\* The responses of an endpoint whose body the check never reads.
StatusResponses == {Err("")} \cup {Http(s, "") : s \in Statuses}

\* The responses of an endpoint whose body the check reads when the status is
\* 200; the check tells no other status from another.
BodyResponses(bodies, unread) ==
    {Err(unread)} \cup {Http(s, unread) : s \in {404, 500}}
    \cup {Http(200, b) : b \in bodies}

\* The sequences over S of length at most n.
SeqsUpTo(S, n) == UNION {[1 .. k -> S] : k \in 0 .. n}

\* The keys `in` finds in a decoded JSON body: a dict's keys; none in a list
\* or a string that holds none of the names.
Keys(body) == IF body.shape = "dict" THEN body.fields ELSE {}

\* [field for field in required_fields if field not in data]
MissingFields(required, body) ==
    SelectSeq(required, LAMBDA f : f \notin Keys(body))

(* ------------------------- market data checks -------------------------- *)

HealthKeys == {"status", "connectedUsers", "activeSymbols", "uptime", "authenticatedUsers"}

HealthRequired == <<"status", "connectedUsers", "activeSymbols", "uptime">>

\* The key sets of the dict bodies: all keys, all but one, and none.
KeySets(keys) == {keys, {}} \cup {keys \ {k} : k \in keys}

\* Decoded bodies of GET /health: a dict whose uptime is a number or not; a
\* list or string; a number, boolean or null.
HealthBodies ==
    {[shape |-> "dict", fields |-> F, uptimeIsNumber |-> "uptime" \in F] :
        F \in KeySets(HealthKeys)}
    \cup {[shape |-> "dict", fields |-> F, uptimeIsNumber |-> FALSE] :
        F \in {HealthKeys, HealthKeys \ {"authenticatedUsers"}}}
    \cup {[shape |-> s, fields |-> {}, uptimeIsNumber |-> FALSE] :
        s \in {"sequence", "scalar"}}

NominalHealth ==
    Http(200, [shape |-> "dict",
               fields |-> {"status", "connectedUsers", "activeSymbols", "uptime"},
               uptimeIsNumber |-> TRUE])

HealthResponses == BodyResponses(HealthBodies, NominalHealth.body)

test_health_endpoint ==
    /\ pc = "health"
    /\ \E r \in HealthResponses :
        /\ Served(r, NominalHealth)
        /\ LET name == TestName("Health Endpoint", <<>>)
               missing == MissingFields(HealthRequired, r.body)
           IN  IF r.kind = "err"
               THEN /\ RecordTestResult(name, FALSE, Message("Connection error"))
                    /\ Return("health", symbols, ws_ok)
               ELSE IF r.status # 200
               THEN /\ RecordTestResult(name, FALSE, Message("HTTP"))
                    /\ Return("health", symbols, ws_ok)
               ELSE IF r.body.shape = "scalar"
               THEN Propagate      \* TypeError: `field not in data`
               ELSE IF missing # <<>>
               THEN /\ RecordTestResult(name, FALSE,
                           MessageNames("Missing fields", missing))
                    /\ Return("health", symbols, ws_ok)
               ELSE IF ~r.body.uptimeIsNumber
               THEN Propagate      \* ValueError/TypeError: {data['uptime']:.1f}
               ELSE /\ RecordTestResult(name, TRUE,
                           Message(IF "authenticatedUsers" \in r.body.fields
                                   THEN "Status, Users, Auth Users, Uptime"
                                   ELSE "Status, Users, Uptime"))
                    /\ Return("health", symbols, ws_ok)
    /\ UNCHANGED <<symbols, ws_ok, realtimeVars, workers, report,
                   latency, otherPrograms>>

\* Decoded bodies of GET /symbols: a list, or anything else.
SymbolsBodies ==
    {[shape |-> "list", list |-> l] :
        l \in {<<>>, <<"AAPL", "MSFT">>, <<"MSFT">>}}
    \cup {[shape |-> "other", list |-> <<>>]}

NominalSymbolsResponse == Http(200, [shape |-> "list", list |-> NominalSymbols])

SymbolsResponses == BodyResponses(SymbolsBodies, [shape |-> "other", list |-> <<>>])

\* What test_symbols_endpoint returns for response r.
SymbolsReturned(r) ==
    IF r.kind = "http" /\ r.status = 200
       /\ r.body.shape = "list" /\ Len(r.body.list) > 0
    THEN r.body.list
    ELSE <<>>

test_symbols_endpoint ==
    /\ pc = "symbols"
    /\ \E r \in SymbolsResponses :
        /\ Served(r, NominalSymbolsResponse)
        /\ LET name == TestName("Symbols Endpoint", <<>>)
           IN  IF r.kind = "err"
               THEN RecordTestResult(name, FALSE, Message("Connection error"))
               ELSE IF r.status # 200
               THEN RecordTestResult(name, FALSE, Message("HTTP"))
               ELSE IF r.body.shape = "list" /\ Len(r.body.list) > 0
               THEN RecordTestResult(name, TRUE, Message("Retrieved symbols"))
               ELSE RecordTestResult(name, FALSE,
                        Message("No symbols returned or invalid format"))
        /\ symbols' = SymbolsReturned(r)
        /\ Return("symbols", symbols', ws_ok)
    /\ UNCHANGED <<ws_ok, realtimeVars, workers, report,
                   latency, otherPrograms>>

HistoryRequired == <<"symbol", "data", "pagination">>

\* Decoded bodies of GET /history/{symbol}: a dict with any of the keys, whose
\* data has a length or not and whose pagination is a dict or not; a list or
\* string; a number, boolean or null.
HistoryBodies ==
    {[shape |-> "dict", fields |-> F, dataSized |-> TRUE, paginationIsDict |-> TRUE] :
        F \in KeySets({"symbol", "data", "pagination"})}
    \cup {[shape |-> "dict", fields |-> {"symbol", "data", "pagination"},
           dataSized |-> d, paginationIsDict |-> g] : d \in BOOLEAN, g \in BOOLEAN}
    \cup {[shape |-> s, fields |-> {}, dataSized |-> FALSE, paginationIsDict |-> FALSE] :
        s \in {"sequence", "scalar"}}

NominalHistory ==
    Http(200, [shape |-> "dict", fields |-> {"symbol", "data", "pagination"},
               dataSized |-> TRUE, paginationIsDict |-> TRUE])

HistoryResponses == BodyResponses(HistoryBodies, NominalHistory.body)

test_history_endpoint ==
    /\ pc = "history"
    /\ \E r \in HistoryResponses :
        /\ Served(r, NominalHistory)
        /\ LET name == TestName("History Endpoint", <<symbols[1]>>)
               missing == MissingFields(HistoryRequired, r.body)
           IN  IF r.kind = "err"
               THEN /\ RecordTestResult(name, FALSE, Message("Connection error"))
                    /\ Return("history", symbols, ws_ok)
               ELSE IF r.status # 200
               THEN /\ RecordTestResult(name, FALSE, Message("HTTP"))
                    /\ Return("history", symbols, ws_ok)
               ELSE IF r.body.shape = "scalar"
               THEN Propagate      \* TypeError: `field in data`
               ELSE IF missing # <<>>
               THEN /\ RecordTestResult(name, FALSE,
                           MessageNames("Missing fields", missing))
                    /\ Return("history", symbols, ws_ok)
               ELSE IF ~r.body.dataSized \/ ~r.body.paginationIsDict
               THEN Propagate      \* TypeError: len(...); AttributeError: .get
               ELSE /\ RecordTestResult(name, TRUE, Message("Retrieved records"))
                    /\ Return("history", symbols, ws_ok)
    /\ UNCHANGED <<symbols, ws_ok, realtimeVars, workers, report,
                   latency, otherPrograms>>

Intervals == <<"1m", "5m", "15m", "1h">>

CandleFields == {"time", "open", "high", "low", "close", "volume"}

\* One entry of a candlestick data list: a dict with all six fields, a dict
\* that lacks one, or a value `in` cannot be applied to.
CandleShapes == {"complete", "incomplete", "scalar"}

\* The value under "data": a list of entries, null, or a non-zero number.
CandleData ==
    {[kind |-> "list", candles |-> c] : c \in SeqsUpTo(CandleShapes, MaxCandles)}
    \cup {[kind |-> k, candles |-> <<>>] : k \in {"null", "number"}}

CandlestickBodies ==
    {[shape |-> "dict", fields |-> {"symbol", "interval", "data"}, data |-> d] :
        d \in CandleData}
    \cup {[shape |-> "dict", fields |-> F, data |-> [kind |-> "list", candles |-> <<>>]] :
        F \in KeySets({"symbol", "interval", "data"})}
    \cup {[shape |-> s, fields |-> {}, data |-> [kind |-> "null", candles |-> <<>>]] :
        s \in {"sequence", "scalar"}}

NominalCandlestick ==
    Http(200, [shape |-> "dict", fields |-> {"symbol", "interval", "data"},
               data |-> [kind |-> "list", candles |-> <<"complete">>]])

CandlestickResponses == BodyResponses(CandlestickBodies, NominalCandlestick.body)

\* One iteration of test_candlestick_endpoint's loop over the intervals.
test_candlestick_endpoint ==
    /\ pc = "candlestick"
    /\ \E r \in CandlestickResponses :
        /\ Served(r, NominalCandlestick)
        /\ LET name == TestName("Candlestick", <<symbols[1], Intervals[i]>>)
               d == r.body.data
           IN  IF r.kind = "err"
               THEN /\ RecordTestResult(name, FALSE, Message("Error"))
                    /\ Iterate("candlestick", Len(Intervals))
               ELSE IF r.status # 200
               THEN /\ RecordTestResult(name, FALSE, Message("HTTP"))
                    /\ Iterate("candlestick", Len(Intervals))
               ELSE IF r.body.shape = "scalar"
               THEN Propagate      \* TypeError: `field in data`
               ELSE IF MissingFields(<<"symbol", "interval", "data">>, r.body) # <<>>
               THEN /\ RecordTestResult(name, FALSE, Message("Missing required fields"))
                    /\ Iterate("candlestick", Len(Intervals))
               ELSE IF d.kind # "list"
               THEN Propagate      \* TypeError: len(None), len(5)
               ELSE IF d.candles = <<>>
               THEN /\ RecordTestResult(name, TRUE, Message("Retrieved candlesticks"))
                    /\ Iterate("candlestick", Len(Intervals))
               ELSE IF d.candles[1] = "scalar"
               THEN Propagate      \* TypeError: `field in candle`
               ELSE IF d.candles[1] = "complete"
               THEN /\ RecordTestResult(name, TRUE, Message("Retrieved candlesticks"))
                    /\ Iterate("candlestick", Len(Intervals))
               ELSE /\ RecordTestResult(name, FALSE,
                           Message("Invalid candlestick data structure"))
                    /\ Iterate("candlestick", Len(Intervals))
    /\ UNCHANGED <<symbols, ws_ok, realtimeVars, workers, report,
                   latency, otherPrograms>>

(* ------------------------ trading endpoint checks ---------------------- *)

\* protected_endpoints of test_authentication_protection.
ProtectedEndpoints == <<"/trade", "/portfolio", "/trades", "/shorts">>

\* A check that also took a 403 for a rejection.
RequiresAuthOrForbidden(status) == status \in {401, 403}

\* if response.status_code == 401
RequiresAuth(status) == status = 401

\* One iteration of test_authentication_protection's loop.
test_authentication_protection ==
    /\ pc = "auth"
    /\ \E r \in StatusResponses :
        /\ Served(r, Http(401, ""))
        /\ LET name == TestName("Auth Protection", <<ProtectedEndpoints[i]>>)
           IN  IF r.kind = "err"
               THEN RecordTestResult(name, FALSE, Message("Error"))
               ELSE IF RequiresAuth(r.status)
               THEN RecordTestResult(name, TRUE,
                        Message("Properly requires authentication"))
               ELSE RecordTestResult(name, FALSE, Message("Expected 401"))
        /\ Iterate("auth", Len(ProtectedEndpoints))
    /\ UNCHANGED <<symbols, ws_ok, realtimeVars, workers, report,
                   latency, otherPrograms>>

\* The descriptions of test_trade_endpoint_validation's test_cases.
ValidationCases ==
    <<"Missing required fields", "Invalid order type", "Missing quantity",
      "Invalid quantity">>

\* A check that also took a 403 for a rejection of the request.
ProperlyRejectedOrForbidden(status) == status \in {400, 401, 403}

\* if response.status_code in [400, 401]
ProperlyRejected(status) == status \in {400, 401}

\* One iteration of test_trade_endpoint_validation's loop.
test_trade_endpoint_validation ==
    /\ pc = "validation"
    /\ \E r \in StatusResponses :
        /\ Served(r, Http(401, ""))
        /\ LET name == TestName("Trade Validation", <<ValidationCases[i]>>)
           IN  IF r.kind = "err"
               THEN RecordTestResult(name, FALSE, Message("Error"))
               ELSE IF ProperlyRejected(r.status)
               THEN RecordTestResult(name, TRUE, Message("Properly rejected"))
               ELSE RecordTestResult(name, FALSE, Message("Expected 400/401"))
        /\ Iterate("validation", Len(ValidationCases))
    /\ UNCHANGED <<symbols, ws_ok, realtimeVars, workers, report,
                   latency, otherPrograms>>

\* Decoded bodies of GET /leaderboard: a list of some length, a dict, or a
\* value that has no len().
LeaderboardBodies ==
    {[shape |-> "list", len |-> n] : n \in {0, 5, 6}}
    \cup {[shape |-> "dict", len |-> 1], [shape |-> "scalar", len |-> 0]}

NominalLeaderboard == Http(200, [shape |-> "list", len |-> 5])

LeaderboardResponses == BodyResponses(LeaderboardBodies, NominalLeaderboard.body)

\* The request with the limit parameter, made when the first response was a
\* 200 with a list; both requests are inside one try.
LeaderboardLimitRequest(name, first) ==
    \E l \in LeaderboardResponses :
        LET cost == (IF first = NominalLeaderboard THEN 0 ELSE 1)
                    + (IF l = NominalLeaderboard THEN 0 ELSE 1)
        IN  /\ envEvents + cost <= MaxEnvEvents
            /\ envEvents' = envEvents + cost
            /\ lastResponse' = [kind |-> l.kind, status |-> l.status]
            /\ lastBody' = l.body
            /\ IF l.kind = "err"
               THEN /\ RecordTestResult(name, FALSE, Message("Connection error"))
                    /\ Return("leaderboard", symbols, ws_ok)
               ELSE IF l.status # 200
               THEN /\ RecordTestResult(name, TRUE,
                           Message("Retrieved entries (limit test failed)"))
                    /\ Return("leaderboard", symbols, ws_ok)
               ELSE IF l.body.shape = "scalar"
               THEN Propagate      \* TypeError: len(limited_board)
               ELSE /\ RecordTestResult(name, TRUE,
                           MessageNum("Retrieved entries, limit test", l.body.len))
                    /\ Return("leaderboard", symbols, ws_ok)

test_leaderboard_endpoint ==
    /\ pc = "leaderboard"
    /\ \E r \in LeaderboardResponses :
        LET name == TestName("Leaderboard Endpoint", <<>>)
        IN  /\ r = NominalLeaderboard \/ envEvents < MaxEnvEvents
            /\ IF r.kind = "http" /\ r.status = 200 /\ r.body.shape = "list"
               THEN LeaderboardLimitRequest(name, r)
               ELSE /\ Served(r, NominalLeaderboard)
                    /\ RecordTestResult(name, FALSE,
                           Message(IF r.kind = "err" THEN "Connection error"
                                   ELSE IF r.status # 200 THEN "HTTP"
                                   ELSE "Invalid response format"))
                    /\ Return("leaderboard", symbols, ws_ok)
    /\ UNCHANGED <<symbols, ws_ok, realtimeVars, workers, report,
                   latency, otherPrograms>>

\* admin_endpoints of test_admin_endpoint_protection.
AdminEndpoints ==
    <<"/admin/simulation/status", "/admin/simulation/start",
      "/admin/simulation/stop", "/admin/simulation/square-off">>

\* if response.status_code in [401, 403, 503]
ProperlyProtected(status) == status \in {401, 403, 503}

\* One iteration of test_admin_endpoint_protection's loop.
test_admin_endpoint_protection ==
    /\ pc = "admin"
    /\ \E r \in StatusResponses :
        /\ Served(r, Http(401, ""))
        /\ LET name == TestName("Admin Protection", <<AdminEndpoints[i]>>)
           IN  IF r.kind = "err"
               THEN RecordTestResult(name, FALSE, Message("Error"))
               ELSE IF ProperlyProtected(r.status)
               THEN RecordTestResult(name, TRUE, Message("Properly protected"))
               ELSE RecordTestResult(name, FALSE, Message("Expected 401/403/503"))
        /\ Iterate("admin", Len(AdminEndpoints))
    /\ UNCHANGED <<symbols, ws_ok, realtimeVars, workers, report,
                   latency, otherPrograms>>

\* test_portfolio_pagination: GET /trades?page=1&limit=10.
test_portfolio_pagination ==
    /\ pc = "pagination"
    /\ \E r \in StatusResponses :
        /\ Served(r, Http(401, ""))
        /\ LET name == TestName("Trade History Pagination", <<>>)
           IN  IF r.kind = "err"
               THEN RecordTestResult(name, FALSE, Message("Error"))
               ELSE IF RequiresAuth(r.status)
               THEN RecordTestResult(name, TRUE,
                        Message("Pagination parameters accepted, auth required"))
               ELSE RecordTestResult(name, FALSE, Message("Expected 401"))
        /\ Return("pagination", symbols, ws_ok)
    /\ UNCHANGED <<symbols, ws_ok, realtimeVars, workers, report,
                   latency, otherPrograms>>

\* endpoints of test_short_positions_endpoint.
ShortsEndpoints == <<"/shorts", "/shorts?active=true">>

\* One iteration of test_short_positions_endpoint's loop; the try encloses the
\* whole loop, so a RequestException ends it.
test_short_positions_endpoint ==
    /\ pc = "shorts"
    /\ \E r \in StatusResponses :
        /\ Served(r, Http(401, ""))
        /\ IF r.kind = "err"
           THEN /\ RecordTestResult(TestName("Short Positions Endpoint", <<>>),
                       FALSE, Message("Error"))
                /\ Return("shorts", symbols, ws_ok)
           ELSE /\ RecordTestResult(
                       TestName("Short Positions", <<ShortsEndpoints[i]>>),
                       RequiresAuth(r.status),
                       Message(IF RequiresAuth(r.status)
                               THEN "Properly requires authentication"
                               ELSE "Expected 401"))
                /\ Iterate("shorts", Len(ShortsEndpoints))
    /\ UNCHANGED <<symbols, ws_ok, realtimeVars, workers, report,
                   latency, otherPrograms>>

\* invalid_endpoints of test_invalid_endpoints.
InvalidEndpoints ==
    <<"/nonexistent", "/trade/invalid", "/portfolio/fake", "/admin/invalid">>

\* One iteration of test_invalid_endpoints' loop.
test_invalid_endpoints ==
    /\ pc = "invalid"
    /\ \E r \in StatusResponses :
        /\ Served(r, Http(404, ""))
        /\ LET name == TestName("Invalid Endpoint", <<InvalidEndpoints[i]>>)
           IN  IF r.kind = "err"
               THEN RecordTestResult(name, FALSE, Message("Error"))
               ELSE IF r.status = 404
               THEN RecordTestResult(name, TRUE, Message("Properly returns 404"))
               ELSE RecordTestResult(name, FALSE, Message("Expected 404"))
        /\ Iterate("invalid", Len(InvalidEndpoints))
    /\ UNCHANGED <<symbols, ws_ok, realtimeVars, workers, report,
                   latency, otherPrograms>>

(* --------------------------- realtime client --------------------------- *)

\* The event name a handler of setup_websocket_handlers writes into the
\* entry it appends: on_tick "tick", on_historical_data "historical_data", ...
HandlerTagCopied(kind) == IF kind = "historical_data" THEN "tick" ELSE kind

HandlerTag(kind) == kind

\* self.websocket_messages.append(entry), on the list the handler loaded.
AppendedUnlessRepeated(buffer, entry) ==
    IF \E n \in 1 .. Len(buffer) :
           buffer[n].event = entry.event /\ buffer[n].data = entry.data
    THEN buffer
    ELSE Append(buffer, entry)

Appended(buffer, entry) == Append(buffer, entry)

\* self.websocket_messages = []: the attribute is bound to a new, empty list.
ClearMessagesKeepsList ==
    /\ websocket_messages' = websocket_messages
    /\ bufId' = bufId
    /\ clearedAt' = Len(delivered)

ClearMessages ==
    /\ websocket_messages' = <<>>
    /\ bufId' = bufId + 1
    /\ clearedAt' = Len(delivered)

\* The server sends message m: socket.io calls the handler of m's kind, which
\* loads self.websocket_messages and builds its entry (stamped with the local
\* receipt time, here the arrival number).
HandlerLoad ==
    /\ pc \notin {"done", "crashed"}
    /\ Connected
    /\ handler.pc = "idle"
    /\ envEvents < MaxEnvEvents
    /\ \E m \in InboundMessages :
        /\ delivered' = Append(delivered, m)
        /\ handler' = [pc |-> "append",
                       msg |-> [event |-> HandlerTag(m.event), data |-> m.data,
                                timestamp |-> Len(delivered) + 1],
                       ref |-> bufId]
    /\ envEvents' = envEvents + 1
    /\ UNCHANGED <<pc, i, recorderVars, symbols, ws_ok, websocket_messages, bufId,
                   sio, emitted, slept, clearedAt, lastResponse, lastBody, workers, report,
                   latency, otherPrograms>>

\* The handler's append, on the list object it loaded: the list still bound
\* to self.websocket_messages, or one that has been replaced since.
HandlerAppend ==
    /\ handler.pc = "append"
    /\ websocket_messages' =
           IF handler.ref = bufId
           THEN Appended(websocket_messages, handler.msg)
           ELSE websocket_messages
    /\ handler' = IdleHandler
    /\ UNCHANGED <<pc, i, recorderVars, symbols, ws_ok, bufId, sio, emitted, slept,
                   delivered, clearedAt, lastResponse, lastBody, envEvents, workers, report,
                   latency, otherPrograms>>

\* The connection drops; the client (reconnection=True) starts reconnecting.
ConnectionDrop ==
    /\ pc \notin {"done", "crashed"}
    /\ Connected
    /\ envEvents < MaxEnvEvents
    /\ sio' = "reconnecting"
    /\ envEvents' = envEvents + 1
    /\ UNCHANGED <<pc, i, recorderVars, symbols, ws_ok, websocket_messages, bufId,
                   emitted, handler, slept, delivered, clearedAt, lastResponse, lastBody,
                   workers, report,
                   latency, otherPrograms>>

\* A reconnection attempt succeeds.
Reconnect ==
    /\ pc \notin {"done", "crashed"}
    /\ sio = "reconnecting"
    /\ envEvents < MaxEnvEvents
    /\ sio' = "connected"
    /\ envEvents' = envEvents + 1
    /\ UNCHANGED <<pc, i, recorderVars, symbols, ws_ok, websocket_messages, bufId,
                   emitted, handler, slept, delivered, clearedAt, lastResponse, lastBody,
                   workers, report,
                   latency, otherPrograms>>

(* ---------------------------- realtime checks -------------------------- *)

\* A connect step that returns True whenever self.sio.connect has returned.
ReturnsTrueUnlessRaised(outcome) == outcome # "raised"

\* What test_websocket_connection returns: True under `if self.sio.connected`,
\* False in the else branch and in the except clause.
ConnectionReturns(outcome) == outcome = "connected"

\* test_websocket_connection: self.sio.connect raises, or returns with the
\* client connected, or returns with the connection already lost.
test_websocket_connection ==
    /\ pc = "ws_connect"
    /\ \E outcome \in {"connected", "raised", "lost"} :
        /\ outcome = "connected" \/ envEvents < MaxEnvEvents
        /\ envEvents' = IF outcome = "connected" THEN envEvents ELSE envEvents + 1
        /\ sio' = CASE outcome = "connected" -> "connected"
                    [] outcome = "raised" -> "disconnected"
                    [] outcome = "lost" -> "reconnecting"
        /\ LET name == TestName("WebSocket Connection", <<>>)
           IN  CASE outcome = "connected" ->
                      RecordTestResult(name, TRUE, Message("Successfully connected"))
                 [] outcome = "raised" ->
                      RecordTestResult(name, FALSE, Message("Connection error"))
                 [] outcome = "lost" ->
                      RecordTestResult(name, FALSE,
                          Message("Failed to connect to WebSocket server"))
        /\ ws_ok' = ConnectionReturns(outcome)
        /\ Return("ws_connect", symbols, ws_ok')
    /\ UNCHANGED <<symbols, websocket_messages, bufId, emitted, handler, slept,
                   delivered, clearedAt, lastResponse, lastBody, workers, report,
                   latency, otherPrograms>>

\* test_websocket_market_data up to the clear: `if not self.sio.connected:
\* return False`, then self.websocket_messages = [].
market_data_start ==
    /\ pc = "md_start"
    /\ IF ~Connected
       THEN /\ Return("md_start", symbols, ws_ok)
            /\ UNCHANGED <<websocket_messages, bufId, clearedAt>>
       ELSE /\ ClearMessages
            /\ pc' = "md_join"
            /\ i' = i
    /\ UNCHANGED <<recorderVars, symbols, ws_ok, sio, emitted, handler, slept,
                   delivered, lastResponse, lastBody, envEvents, workers, report,
                   latency, otherPrograms>>

\* An emit that sends whatever the state of the client.
EmitSendsRegardless == TRUE

\* self.sio.emit(event, data) sends on a connected client and raises on one
\* that is not connected.
EmitSends == Connected

\* self.sio.emit('join_symbol', symbol): raises when the client is not
\* connected, and the except clause records the error.
market_data_join ==
    /\ pc = "md_join"
    /\ IF EmitSends
       THEN /\ emitted' = Append(emitted, <<"join_symbol", symbols[1]>>)
            /\ slept' = 0
            /\ pc' = "md_sleep"
            /\ i' = i
            /\ UNCHANGED recorderVars
       ELSE /\ RecordTestResult(TestName("WebSocket Market Data", <<symbols[1]>>),
                   FALSE, Message("Error"))
            /\ Return("md_start", symbols, ws_ok)
            /\ UNCHANGED <<emitted, slept>>
    /\ UNCHANGED <<symbols, ws_ok, websocket_messages, bufId, sio, handler,
                   delivered, clearedAt, lastResponse, lastBody, envEvents, workers, report,
                   latency, otherPrograms>>

\* The duration of the time.sleep the main control flow is in.
SleepDuration ==
    IF pc = "md_sleep" THEN WebsocketDuration ELSE TradingEventsDuration

\* time.sleep(duration): the duration elapses.
time_sleep ==
    /\ pc \in {"md_sleep", "te_sleep"}
    /\ slept < SleepDuration
    /\ slept' = SleepDuration
    /\ UNCHANGED <<pc, i, recorderVars, symbols, ws_ok, websocket_messages, bufId,
                   sio, emitted, handler, delivered, clearedAt, lastResponse, lastBody,
                   envEvents, workers, report,
                   latency, otherPrograms>>

\* A list comprehension whose filter lets every event through.
MessagesOfAnyKind(kind) == websocket_messages

\* [msg for msg in self.websocket_messages if msg["event"] == kind]
MessagesOfKind(kind) ==
    SelectSeq(websocket_messages, LAMBDA msg : msg.event = kind)

\* success = len(tick_messages) > 0 or len(historical_messages) > 0
MarketDataReceived ==
    Len(MessagesOfKind("tick")) > 0 \/ Len(MessagesOfKind("historical_data")) > 0

\* The sleep has returned: the check counts the buffered messages and records
\* its outcome.
market_data_inspect ==
    /\ pc = "md_sleep"
    /\ slept = WebsocketDuration
    /\ LET name == TestName("WebSocket Market Data", <<symbols[1]>>)
       IN  IF MarketDataReceived
           THEN RecordTestResult(name, TRUE, Message("Received ticks, historical"))
           ELSE RecordTestResult(name, FALSE,
                    MessageNum("No market data received in {duration}s",
                               WebsocketDuration))
    /\ pc' = "md_leave"
    /\ i' = i
    /\ UNCHANGED <<symbols, ws_ok, realtimeVars, lastResponse, lastBody, envEvents, workers, report,
                   latency, otherPrograms>>

\* self.sio.emit('leave_symbol', symbol), inside the same try: when it raises,
\* the except clause records an outcome of its own.
market_data_leave ==
    /\ pc = "md_leave"
    /\ IF EmitSends
       THEN /\ emitted' = Append(emitted, <<"leave_symbol", symbols[1]>>)
            /\ UNCHANGED recorderVars
       ELSE /\ RecordTestResult(TestName("WebSocket Market Data", <<symbols[1]>>),
                   FALSE, Message("Error"))
            /\ UNCHANGED emitted
    /\ Return("md_start", symbols, ws_ok)
    /\ UNCHANGED <<symbols, ws_ok, websocket_messages, bufId, sio, handler, slept,
                   delivered, clearedAt, lastResponse, lastBody, envEvents, workers, report,
                   latency, otherPrograms>>

\* test_websocket_trading_events up to the sleep.
trading_events_start ==
    /\ pc = "te_start"
    /\ IF ~Connected
       THEN /\ Return("te_start", symbols, ws_ok)
            /\ UNCHANGED <<websocket_messages, bufId, clearedAt, slept>>
       ELSE /\ ClearMessages
            /\ slept' = 0
            /\ pc' = "te_sleep"
            /\ i' = i
    /\ UNCHANGED <<recorderVars, symbols, ws_ok, sio, emitted, handler,
                   delivered, lastResponse, lastBody, envEvents, workers, report,
                   latency, otherPrograms>>

\* The sleep has returned: the check counts the portfolio updates and records.
trading_events_inspect ==
    /\ pc = "te_sleep"
    /\ slept = TradingEventsDuration
    /\ LET name == TestName("WebSocket Trading Events", <<>>)
       IN  IF Len(MessagesOfKind("portfolio_update")) = 0
           THEN RecordTestResult(name, TRUE, Message("No portfolio updates received"))
           ELSE RecordTestResult(name, FALSE,
                    MessageNum("Received portfolio updates without auth",
                               Len(MessagesOfKind("portfolio_update"))))
    /\ Return("te_start", symbols, ws_ok)
    /\ UNCHANGED <<symbols, ws_ok, realtimeVars, lastResponse, lastBody, envEvents, workers, report,
                   latency, otherPrograms>>

\* self.sio.disconnect()
sio_disconnect ==
    /\ pc = "ws_disconnect"
    /\ sio' = "disconnected"
    /\ Return("ws_disconnect", symbols, ws_ok)
    /\ UNCHANGED <<recorderVars, symbols, ws_ok, websocket_messages, bufId, emitted,
                   handler, slept, delivered, clearedAt, lastResponse, lastBody, envEvents,
                   workers, report,
                   latency, otherPrograms>>

(* --------------------------- performance check ------------------------- *)

\* endpoints of test_api_response_times.
TimedEndpoints == <<"Health", "Symbols", "History", "Candlestick", "Leaderboard">>

\* One probe: an exception, a status other than 200, or a 200 after ms.
ProbeResults ==
    {[kind |-> "err", status |-> 0, ms |-> 0],
     [kind |-> "http", status |-> 500, ms |-> 1000]}
    \cup {[kind |-> "http", status |-> 200, ms |-> t] : t \in {1000, 5000}}

NominalProbe == [kind |-> "http", status |-> 200, ms |-> 1000]

RECURSIVE SumOf(_)
SumOf(times) == IF times = <<>> THEN 0 ELSE Head(times) + SumOf(Tail(times))

\* response_times after the three probes.
ResponseTimes(probes) ==
    LET ok == SelectSeq(probes, LAMBDA q : q.kind = "http" /\ q.status = 200)
    IN  [n \in 1 .. Len(ok) |-> ok[n].ms]

\* A ceiling that an average of exactly 3000 ms still meets.
FastEnoughInclusive(times) == SumOf(times) <= ResponseTimeCeilingMs * Len(times)

\* avg_time < 3000, with avg_time = sum(response_times) / len(response_times)
FastEnough(times) == SumOf(times) < ResponseTimeCeilingMs * Len(times)

\* The lists response_times can hold after the three probes of an endpoint.
ProbedTimes == {ResponseTimes(probes) : probes \in [1 .. ProbesPerEndpoint -> ProbeResults]}

NominalTimes == [n \in 1 .. ProbesPerEndpoint |-> NominalProbe.ms]

\* One iteration of test_api_response_times' loop over the endpoints.
test_api_response_times ==
    /\ pc = "perf"
    /\ \E times \in ProbedTimes :
        LET nominal == times = NominalTimes
            name == TestName("Response Time", <<TimedEndpoints[i]>>)
        IN  /\ nominal \/ envEvents < MaxEnvEvents
            /\ envEvents' = IF nominal THEN envEvents ELSE envEvents + 1
            /\ IF times # <<>>
               THEN RecordTestResult(name, FastEnough(times), Message("Avg, Max"))
               ELSE RecordTestResult(name, FALSE, Message("No successful requests"))
    /\ Iterate("perf", Len(TimedEndpoints))
    /\ UNCHANGED <<symbols, ws_ok, realtimeVars, lastResponse, lastBody, workers, report,
                   latency, otherPrograms>>

\* test_api_response_times(symbol) is entered; the first endpoint's
\* response_times = [].
latency_call ==
    /\ latency.pc = "idle"
    /\ latency' = [latency EXCEPT !.pc = "probe"]
    /\ UNCHANGED <<mainVars, recorderVars, workers, report, otherPrograms>>

\* One pass of for _ in range(3): the probe's time is appended when the
\* response is a 200; the bare except swallows any error.
latency_probe ==
    /\ latency.pc = "probe"
    /\ Len(latency.issued) < ProbesPerEndpoint
    /\ \E q \in ProbeResults :
        /\ q = NominalProbe \/ latency.bad < MaxBadProbes
        /\ latency' = [latency EXCEPT
               !.issued = Append(@, q),
               !.response_times =
                   IF q.kind = "http" /\ q.status = 200 THEN Append(@, q.ms) ELSE @,
               !.bad = IF q = NominalProbe THEN @ ELSE @ + 1]
    /\ UNCHANGED <<mainVars, recorderVars, workers, report, otherPrograms>>

\* After the three probes: the endpoint's outcome is recorded and the loop
\* goes to the next endpoint, or the method returns.
latency_record ==
    /\ latency.pc = "probe"
    /\ Len(latency.issued) = ProbesPerEndpoint
    /\ LET name == TestName("Response Time", <<TimedEndpoints[latency.endpoint]>>)
           times == latency.response_times
       IN  IF times # <<>>
           THEN RecordTestResult(name, FastEnough(times), Message("Avg, Max"))
           ELSE RecordTestResult(name, FALSE, Message("No successful requests"))
    /\ latency' = [latency EXCEPT
           !.pc = IF latency.endpoint < Len(TimedEndpoints) THEN "probe" ELSE "returned",
           !.endpoint = IF latency.endpoint < Len(TimedEndpoints) THEN @ + 1 ELSE @,
           !.response_times = <<>>,
           !.issued = <<>>,
           !.probed = Append(@, latency.issued)]
    /\ UNCHANGED <<mainVars, workers, report, otherPrograms>>

(* -------------------------------- report ------------------------------- *)

\* if success_rate >= 90 / elif success_rate >= 75 / elif success_rate >= 60
FullyFunctionalRate == 90

WorkingWellRate == 75

PartiallyWorkingRate == 60

\* The characters of every text an outcome name is formatted from and of
\* every word print_test_summary looks for in a name.
Spelling ==
    ("Health Endpoint" :>
        <<"H", "e", "a", "l", "t", "h", " ", "E", "n", "d", "p", "o", "i", "n", "t">>)
    @@ ("Symbols Endpoint" :>
        <<"S", "y", "m", "b", "o", "l", "s", " ", "E", "n", "d", "p", "o", "i", "n", "t">>)
    @@ ("History Endpoint" :>
        <<"H", "i", "s", "t", "o", "r", "y", " ", "E", "n", "d", "p", "o", "i", "n", "t">>)
    @@ ("Candlestick" :>
        <<"C", "a", "n", "d", "l", "e", "s", "t", "i", "c", "k">>)
    @@ ("Auth Protection" :>
        <<"A", "u", "t", "h", " ", "P", "r", "o", "t", "e", "c", "t", "i", "o", "n">>)
    @@ ("Trade Validation" :>
        <<"T", "r", "a", "d", "e", " ", "V", "a", "l", "i", "d", "a", "t", "i", "o", "n">>)
    @@ ("Leaderboard Endpoint" :>
        <<"L", "e", "a", "d", "e", "r", "b", "o", "a", "r", "d", " ", "E", "n", "d", "p", "o", "i", "n", "t">>)
    @@ ("Admin Protection" :>
        <<"A", "d", "m", "i", "n", " ", "P", "r", "o", "t", "e", "c", "t", "i", "o", "n">>)
    @@ ("Trade History Pagination" :>
        <<"T", "r", "a", "d", "e", " ", "H", "i", "s", "t", "o", "r", "y", " ", "P", "a", "g", "i", "n", "a", "t", "i", "o", "n">>)
    @@ ("Short Positions Endpoint" :>
        <<"S", "h", "o", "r", "t", " ", "P", "o", "s", "i", "t", "i", "o", "n", "s", " ", "E", "n", "d", "p", "o", "i", "n", "t">>)
    @@ ("Short Positions" :>
        <<"S", "h", "o", "r", "t", " ", "P", "o", "s", "i", "t", "i", "o", "n", "s">>)
    @@ ("Invalid Endpoint" :>
        <<"I", "n", "v", "a", "l", "i", "d", " ", "E", "n", "d", "p", "o", "i", "n", "t">>)
    @@ ("WebSocket Connection" :>
        <<"W", "e", "b", "S", "o", "c", "k", "e", "t", " ", "C", "o", "n", "n", "e", "c", "t", "i", "o", "n">>)
    @@ ("WebSocket Market Data" :>
        <<"W", "e", "b", "S", "o", "c", "k", "e", "t", " ", "M", "a", "r", "k", "e", "t", " ", "D", "a", "t", "a">>)
    @@ ("WebSocket Trading Events" :>
        <<"W", "e", "b", "S", "o", "c", "k", "e", "t", " ", "T", "r", "a", "d", "i", "n", "g", " ", "E", "v", "e", "n", "t", "s">>)
    @@ ("Response Time" :>
        <<"R", "e", "s", "p", "o", "n", "s", "e", " ", "T", "i", "m", "e">>)
    @@ ("AAPL" :>
        <<"A", "A", "P", "L">>)
    @@ ("MSFT" :>
        <<"M", "S", "F", "T">>)
    @@ ("1m" :>
        <<"1", "m">>)
    @@ ("5m" :>
        <<"5", "m">>)
    @@ ("15m" :>
        <<"1", "5", "m">>)
    @@ ("1h" :>
        <<"1", "h">>)
    @@ ("/trade" :>
        <<"/", "t", "r", "a", "d", "e">>)
    @@ ("/portfolio" :>
        <<"/", "p", "o", "r", "t", "f", "o", "l", "i", "o">>)
    @@ ("/trades" :>
        <<"/", "t", "r", "a", "d", "e", "s">>)
    @@ ("/shorts" :>
        <<"/", "s", "h", "o", "r", "t", "s">>)
    @@ ("Missing required fields" :>
        <<"M", "i", "s", "s", "i", "n", "g", " ", "r", "e", "q", "u", "i", "r", "e", "d", " ", "f", "i", "e", "l", "d", "s">>)
    @@ ("Invalid order type" :>
        <<"I", "n", "v", "a", "l", "i", "d", " ", "o", "r", "d", "e", "r", " ", "t", "y", "p", "e">>)
    @@ ("Missing quantity" :>
        <<"M", "i", "s", "s", "i", "n", "g", " ", "q", "u", "a", "n", "t", "i", "t", "y">>)
    @@ ("Invalid quantity" :>
        <<"I", "n", "v", "a", "l", "i", "d", " ", "q", "u", "a", "n", "t", "i", "t", "y">>)
    @@ ("/admin/simulation/status" :>
        <<"/", "a", "d", "m", "i", "n", "/", "s", "i", "m", "u", "l", "a", "t", "i", "o", "n", "/", "s", "t", "a", "t", "u", "s">>)
    @@ ("/admin/simulation/start" :>
        <<"/", "a", "d", "m", "i", "n", "/", "s", "i", "m", "u", "l", "a", "t", "i", "o", "n", "/", "s", "t", "a", "r", "t">>)
    @@ ("/admin/simulation/stop" :>
        <<"/", "a", "d", "m", "i", "n", "/", "s", "i", "m", "u", "l", "a", "t", "i", "o", "n", "/", "s", "t", "o", "p">>)
    @@ ("/admin/simulation/square-off" :>
        <<"/", "a", "d", "m", "i", "n", "/", "s", "i", "m", "u", "l", "a", "t", "i", "o", "n", "/", "s", "q", "u", "a", "r", "e", "-", "o", "f", "f">>)
    @@ ("/shorts?active=true" :>
        <<"/", "s", "h", "o", "r", "t", "s", "?", "a", "c", "t", "i", "v", "e", "=", "t", "r", "u", "e">>)
    @@ ("/nonexistent" :>
        <<"/", "n", "o", "n", "e", "x", "i", "s", "t", "e", "n", "t">>)
    @@ ("/trade/invalid" :>
        <<"/", "t", "r", "a", "d", "e", "/", "i", "n", "v", "a", "l", "i", "d">>)
    @@ ("/portfolio/fake" :>
        <<"/", "p", "o", "r", "t", "f", "o", "l", "i", "o", "/", "f", "a", "k", "e">>)
    @@ ("/admin/invalid" :>
        <<"/", "a", "d", "m", "i", "n", "/", "i", "n", "v", "a", "l", "i", "d">>)
    @@ ("Health" :>
        <<"H", "e", "a", "l", "t", "h">>)
    @@ ("Symbols" :>
        <<"S", "y", "m", "b", "o", "l", "s">>)
    @@ ("History" :>
        <<"H", "i", "s", "t", "o", "r", "y">>)
    @@ ("Leaderboard" :>
        <<"L", "e", "a", "d", "e", "r", "b", "o", "a", "r", "d">>)
    @@ ("Auth" :>
        <<"A", "u", "t", "h">>)
    @@ ("Trade" :>
        <<"T", "r", "a", "d", "e">>)
    @@ ("Portfolio" :>
        <<"P", "o", "r", "t", "f", "o", "l", "i", "o">>)
    @@ ("Admin" :>
        <<"A", "d", "m", "i", "n">>)
    @@ ("Short" :>
        <<"S", "h", "o", "r", "t">>)
    @@ ("WebSocket" :>
        <<"W", "e", "b", "S", "o", "c", "k", "e", "t">>)

Range(seq) == {seq[n] : n \in 1 .. Len(seq)}

\* The names record_test_result is called with.
RecordableNames ==
    {TestName(c, <<>>) :
        c \in {"Health Endpoint", "Symbols Endpoint", "Leaderboard Endpoint",
               "Trade History Pagination", "Short Positions Endpoint",
               "WebSocket Connection", "WebSocket Trading Events"}}
    \cup {TestName(c, <<s>>) :
            c \in {"History Endpoint", "WebSocket Market Data"}, s \in SymbolUniverse}
    \cup {TestName("Candlestick", <<s, v>>) : s \in SymbolUniverse, v \in Range(Intervals)}
    \cup {TestName("Auth Protection", <<e>>) : e \in Range(ProtectedEndpoints)}
    \cup {TestName("Trade Validation", <<d>>) : d \in Range(ValidationCases)}
    \cup {TestName("Admin Protection", <<e>>) : e \in Range(AdminEndpoints)}
    \cup {TestName("Short Positions", <<e>>) : e \in Range(ShortsEndpoints)}
    \cup {TestName("Invalid Endpoint", <<e>>) : e \in Range(InvalidEndpoints)}
    \cup {TestName("Response Time", <<e>>) : e \in Range(TimedEndpoints)}

\* The names formatted as f"... ({symbol})" or f"... ({symbol}, {interval})";
\* the others with arguments are formatted as f"... {endpoint}".
Parenthesised ==
    {"History Endpoint", "Candlestick", "Trade Validation", "WebSocket Market Data",
     "Response Time"}

RECURSIVE Joined(_)
Joined(args) ==
    IF Len(args) = 1
    THEN Spelling[args[1]]
    ELSE Spelling[Head(args)] \o <<",", " ">> \o Joined(Tail(args))

\* The string record_test_result stores under "test".
FormattedName(test) ==
    IF test.args = <<>>
    THEN Spelling[test.check]
    ELSE IF test.check \in Parenthesised
         THEN Spelling[test.check] \o <<" ", "(">> \o Joined(test.args) \o <<")">>
         ELSE Spelling[test.check] \o <<" ">> \o Joined(test.args)

\* x in r["test"]: the word occurs somewhere in the name.
Occurs(word, text) ==
    \E k \in 1 .. Len(text) - Len(word) + 1 :
        SubSeq(text, k, k + Len(word) - 1) = word

CategoryWords ==
    {"Health", "Symbols", "History", "Candlestick", "Auth", "Trade", "Portfolio",
     "Leaderboard", "Admin", "Short", "WebSocket", "Response Time"}

\* The words of print_test_summary that occur in each recordable name.
WordsOfName ==
    [t \in RecordableNames |->
        {w \in CategoryWords : Occurs(Spelling[w], FormattedName(t))}]

\* [r for r in self.test_results if any(x in r["test"] for x in words)]
Matching(words) ==
    SelectSeq(test_results, LAMBDA r : WordsOfName[r.test] \cap words # {})

market_tests == Matching({"Health", "Symbols", "History", "Candlestick"})

trading_tests == Matching({"Auth", "Trade", "Portfolio", "Leaderboard", "Admin", "Short"})

websocket_tests == Matching({"WebSocket"})

perf_tests == Matching({"Response Time"})

categories ==
    <<[name |-> "Market Data", tests |-> market_tests],
      [name |-> "Trading Features", tests |-> trading_tests],
      [name |-> "WebSocket", tests |-> websocket_tests],
      [name |-> "Performance", tests |-> perf_tests]>>

\* The lines "{category_name}: {passed}/{total} passed", printed for the
\* categories that have tests.
CategoryLines ==
    LET shown == SelectSeq(categories, LAMBDA c : c.tests # <<>>)
    IN  [n \in 1 .. Len(shown) |->
            [name |-> shown[n].name,
             passed |-> Len(SelectSeq(shown[n].tests, LAMBDA t : t.success)),
             total |-> Len(shown[n].tests)]]

\* A rate computed without the test on tests_run.
SuccessRateUnguarded == [num |-> tests_passed * 100, den |-> tests_run]

\* success_rate = (self.tests_passed / self.tests_run) * 100
\*                if self.tests_run > 0 else 0, as the fraction num / den.
SuccessRate ==
    IF tests_run > 0
    THEN [num |-> tests_passed * 100, den |-> tests_run]
    ELSE [num |-> 0, den |-> 1]

\* A chain of comparisons that leaves each threshold to the tier below.
VerdictAboveThreshold(rate) ==
    IF rate.num > FullyFunctionalRate * rate.den THEN "FULLY FUNCTIONAL"
    ELSE IF rate.num > WorkingWellRate * rate.den THEN "WORKING WELL"
    ELSE IF rate.num > PartiallyWorkingRate * rate.den THEN "PARTIALLY WORKING"
    ELSE "NEEDS FIXES"

\* The final verdict's if / elif chain on success_rate.
Verdict(rate) ==
    IF rate.num >= FullyFunctionalRate * rate.den THEN "FULLY FUNCTIONAL"
    ELSE IF rate.num >= WorkingWellRate * rate.den THEN "WORKING WELL"
    ELSE IF rate.num >= PartiallyWorkingRate * rate.den THEN "PARTIALLY WORKING"
    ELSE "NEEDS FIXES"

NoReport ==
    [total |-> 0, passed |-> 0, failed |-> 0, success_rate |-> [num |-> 0, den |-> 1],
     categories |-> <<>>, verdict |-> ""]

\* print_test_summary: reads the recorder and prints the totals, the success
\* rate, the category lines and the verdict.
print_test_summary ==
    /\ pc = "summary"
    /\ report' = [total |-> tests_run, passed |-> tests_passed, failed |-> tests_failed,
                  success_rate |-> SuccessRate,
                  categories |-> CategoryLines,
                  verdict |-> Verdict(SuccessRate)]
    /\ pc' = "done"
    /\ UNCHANGED <<i, recorderVars, symbols, ws_ok, realtimeVars, lastResponse, lastBody,
                   envEvents, workers, latency, otherPrograms>>

(* ------------------------------------------------------------------------ *)
Init ==
    /\ pc = "health"
    /\ i = 1
    /\ test_results = <<>>
    /\ tests_run = 0
    /\ tests_passed = 0
    /\ tests_failed = 0
    /\ symbols = <<>>
    /\ ws_ok = FALSE
    /\ websocket_messages = <<>>
    /\ bufId = 0
    /\ sio = "disconnected"
    /\ emitted = <<>>
    /\ handler = IdleHandler
    /\ slept = 0
    /\ delivered = <<>>
    /\ clearedAt = 0
    /\ lastResponse = NoResponse
    /\ lastBody = ""
    /\ envEvents = 0
    /\ workers = [w \in Workers |-> IdleWorker]
    /\ report = NoReport
    /\ latency = IdleLatency
    /\ trading = IdleTrading
    /\ parser = IdleParser

\* run_all_tests with the service, the realtime server and the receive thread.
Next ==
    \/ test_health_endpoint
    \/ test_symbols_endpoint
    \/ test_history_endpoint
    \/ test_candlestick_endpoint
    \/ test_authentication_protection
    \/ test_trade_endpoint_validation
    \/ test_leaderboard_endpoint
    \/ test_admin_endpoint_protection
    \/ test_portfolio_pagination
    \/ test_short_positions_endpoint
    \/ test_invalid_endpoints
    \/ test_websocket_connection
    \/ market_data_start
    \/ market_data_join
    \/ time_sleep
    \/ market_data_inspect
    \/ market_data_leave
    \/ trading_events_start
    \/ trading_events_inspect
    \/ sio_disconnect
    \/ test_api_response_times
    \/ print_test_summary
    \/ HandlerLoad
    \/ HandlerAppend
    \/ ConnectionDrop
    \/ Reconnect

Spec == Init /\ [][Next]_vars

(* ------------------- record_test_result, concurrently ------------------ *)

\* A caller enters record_test_result(test_name, success, ...).
record_call(w) ==
    /\ workers[w].pc = "idle"
    /\ workers[w].calls < CallsPerWorker
    /\ \E success \in BOOLEAN :
        workers' = [workers EXCEPT ![w].pc = "run_load", ![w].success = success]
    /\ UNCHANGED recorderVars
    /\ UNCHANGED <<mainVars, report, latency, otherPrograms>>

\* self.tests_run += 1: the attribute is loaded ...
record_load_run(w) ==
    /\ workers[w].pc = "run_load"
    /\ workers' = [workers EXCEPT ![w].pc = "run_store", ![w].reg = tests_run]
    /\ UNCHANGED recorderVars
    /\ UNCHANGED <<mainVars, report, latency, otherPrograms>>

\* ... and the sum is stored.
record_store_run(w) ==
    /\ workers[w].pc = "run_store"
    /\ tests_run' = workers[w].reg + 1
    /\ workers' = [workers EXCEPT ![w].pc = "count_load"]
    /\ UNCHANGED <<test_results, tests_passed, tests_failed>>
    /\ UNCHANGED <<mainVars, report, latency, otherPrograms>>

\* self.tests_passed += 1 or self.tests_failed += 1: the load ...
record_load_count(w) ==
    /\ workers[w].pc = "count_load"
    /\ workers' = [workers EXCEPT
           ![w].pc = "count_store",
           ![w].reg = IF workers[w].success THEN tests_passed ELSE tests_failed]
    /\ UNCHANGED recorderVars
    /\ UNCHANGED <<mainVars, report, latency, otherPrograms>>

\* ... and the store.
record_store_count(w) ==
    /\ workers[w].pc = "count_store"
    /\ IF workers[w].success
       THEN tests_passed' = workers[w].reg + 1 /\ UNCHANGED tests_failed
       ELSE tests_failed' = workers[w].reg + 1 /\ UNCHANGED tests_passed
    /\ workers' = [workers EXCEPT ![w].pc = "append"]
    /\ UNCHANGED <<test_results, tests_run>>
    /\ UNCHANGED <<mainVars, report, latency, otherPrograms>>

\* self.test_results.append({...}): one list operation.
record_append(w) ==
    /\ workers[w].pc = "append"
    /\ test_results' = Append(test_results,
           [test |-> TestName("Concurrent Record", <<>>),
            success |-> workers[w].success, message |-> Message("")])
    /\ workers' = [workers EXCEPT ![w].pc = "idle", ![w].calls = @ + 1]
    /\ UNCHANGED <<tests_run, tests_passed, tests_failed>>
    /\ UNCHANGED <<mainVars, report, latency, otherPrograms>>

\* Callers of record_test_result on one tester, interleaved statement by
\* statement: the method takes no lock.
NextRecord ==
    \/ \E w \in Workers : record_call(w)
    \/ \E w \in Workers : record_load_run(w)
    \/ \E w \in Workers : record_store_run(w)
    \/ \E w \in Workers : record_load_count(w)
    \/ \E w \in Workers : record_store_count(w)
    \/ \E w \in Workers : record_append(w)

SpecRecord == Init /\ [][NextRecord]_vars

(* ---------------- test_api_response_times, probe by probe -------------- *)

\* One call of test_api_response_times on a tester, against a service that
\* answers each probe with any of the probe results.
NextLatency ==
    \/ latency_call
    \/ latency_probe
    \/ latency_record

SpecLatency == Init /\ [][NextLatency]_vars

(* ------------------- print_test_summary, on any counts ----------------- *)

\* A tester at the call of print_test_summary, with any number of outcomes
\* recorded and any number of them passed.
InitReport ==
    /\ pc = "summary"
    /\ i = 1
    /\ tests_run \in 0 .. MaxRecorded
    /\ tests_passed \in 0 .. tests_run
    /\ tests_failed = tests_run - tests_passed
    /\ test_results =
           [n \in 1 .. tests_run |->
               [test |-> TestName("Health Endpoint", <<>>),
                success |-> n <= tests_passed,
                message |-> Message("")]]
    /\ symbols = <<>>
    /\ ws_ok = FALSE
    /\ websocket_messages = <<>>
    /\ bufId = 0
    /\ sio = "disconnected"
    /\ emitted = <<>>
    /\ handler = IdleHandler
    /\ slept = 0
    /\ delivered = <<>>
    /\ clearedAt = 0
    /\ lastResponse = NoResponse
    /\ lastBody = ""
    /\ envEvents = 0
    /\ workers = [w \in Workers |-> IdleWorker]
    /\ report = NoReport
    /\ latency = IdleLatency
    /\ trading = IdleTrading
    /\ parser = IdleParser

NextReport == print_test_summary

SpecReport == InitReport /\ [][NextReport]_vars

(* --------------------- run_trading_test (test_trading.py) -------------- *)

Tokens == {"token-a", "token-b"}

\* The lists GET /symbols may carry.
SymbolListBodies == {<<>>, <<"AAPL", "MSFT">>}

\* The holdings of a portfolio response, in the order of the object's keys.
HoldingsBodies ==
    {<<>>,
     <<<<"AAPL", 20>>>>,
     <<<<"AAPL", 3>>, <<"MSFT", 0>>>>,
     <<<<"RELIANCE", 20>>>>,
     <<<<"AAPL", 20>>, <<"MSFT", 7>>, <<"GOOG", 9>>>>}

\* One request of the run, as issued: the Authorization token it carried,
\* the status of the answer (0: no answer), and a trade's fields (held: the
\* quantity the portfolio reported for the symbol of a sell).
Call(req, status, token) ==
    [req |-> req, status |-> status, token |-> token, symbol |-> "",
     order_type |-> "", quantity |-> 0, held |-> 0]

TradeCall(status, token, symbol, order_type, quantity, held) ==
    [req |-> "POST /trade", status |-> status, token |-> token, symbol |-> symbol,
     order_type |-> order_type, quantity |-> quantity, held |-> held]

\* The answers to a request: 200 with a usable body, 200 with a body that
\* lacks what the caller reads, another status, or a connection error.
Answers == {"ok", "malformed", "refused", "error"}

AnswerStatus(a) ==
    CASE a = "ok" -> 200
      [] a = "malformed" -> 200
      [] a = "refused" -> 400
      [] a = "error" -> 0

\* The service answers a: a faulty answer is counted.
Answered(a) ==
    /\ a = "ok" \/ trading.faults < MaxTradingFaults
    /\ a \in Answers

FaultsAfter(a) == IF a = "ok" THEN trading.faults ELSE trading.faults + 1

\* tester.run_trading_test() is called.
trading_call ==
    /\ trading.pc = "idle"
    /\ trading' = [trading EXCEPT !.pc = "health"]
    /\ UNCHANGED <<mainVars, recorderVars, workers, report, latency, parser>>

\* The health check: anything but a 200 ends the run, and the bare except
\* takes every error.
trading_health ==
    /\ trading.pc = "health"
    /\ \E a \in {"ok", "refused", "error"} :
        /\ Answered(a)
        /\ trading' = [trading EXCEPT
               !.pc = IF a = "ok" THEN "create" ELSE "returned",
               !.calls = Append(@, Call("GET /health", AnswerStatus(a), "")),
               !.faults = FaultsAfter(a)]
    /\ UNCHANGED <<mainVars, recorderVars, workers, report, latency, parser>>

\* create_test_user: on a 200 the user, the token and the headers are
\* stored; a body without 'user' or 'token' raises before anything is
\* stored; every exception is caught and the method returns False.
trading_create_test_user ==
    /\ trading.pc = "create"
    /\ \E a \in Answers, t \in Tokens :
        /\ Answered(a)
        /\ trading' = [trading EXCEPT
               !.pc = IF a = "ok" THEN "symbols" ELSE "returned",
               !.user = IF a = "ok" THEN "dict" ELSE @,
               !.token = IF a = "ok" THEN t ELSE @,
               !.headers = IF a = "ok" THEN t ELSE @,
               !.calls = Append(@, Call("POST /test/create-test-user",
                                        AnswerStatus(a), "")),
               !.faults = FaultsAfter(a)]
    /\ UNCHANGED <<mainVars, recorderVars, workers, report, latency, parser>>

\* resp.json()[:5]
FirstSymbols(body) ==
    SubSeq(body, 1, IF Len(body) < SymbolsKept THEN Len(body) ELSE SymbolsKept)

\* get_symbols: no try; a connection error and a body that cannot be sliced
\* leave run_trading_test as exceptions.
trading_get_symbols ==
    /\ trading.pc = "symbols"
    /\ \E a \in Answers, body \in SymbolListBodies :
        /\ Answered(a)
        /\ trading' = [trading EXCEPT
               !.pc = CASE a = "ok" -> "portfolio_initial"
                        [] a = "refused" -> "returned"
                        [] OTHER -> "crashed",
               !.symbols = IF a = "ok" THEN FirstSymbols(body) ELSE @,
               !.calls = Append(@, Call("GET /symbols", AnswerStatus(a), "")),
               !.faults = FaultsAfter(a)]
    /\ UNCHANGED <<mainVars, recorderVars, workers, report, latency, parser>>

PortfolioStages ==
    {"portfolio_initial", "portfolio_after", "portfolio_sell", "portfolio_final"}

AfterPortfolio(stage) ==
    CASE stage = "portfolio_initial" -> "buy"
      [] stage = "portfolio_after" -> "portfolio_sell"
      [] stage = "portfolio_sell" -> "sell"
      [] stage = "portfolio_final" -> "trades"

\* check_portfolio at its four call sites: the portfolio on a 200, None on
\* another status; an error or a body without the printed fields is an
\* exception nothing catches.
trading_check_portfolio ==
    /\ trading.pc \in PortfolioStages
    /\ \E a \in Answers, h \in HoldingsBodies :
        /\ Answered(a)
        /\ trading.pc # "portfolio_sell" => h = <<>>
        /\ LET portfolio == IF a = "ok" THEN "dict" ELSE "none"
           IN  trading' = [trading EXCEPT
                   !.pc = IF a \in {"ok", "refused"}
                          THEN AfterPortfolio(trading.pc) ELSE "crashed",
                   !.initial_portfolio =
                       IF trading.pc = "portfolio_initial" /\ a \in {"ok", "refused"}
                       THEN portfolio ELSE @,
                   !.final_portfolio =
                       IF trading.pc = "portfolio_final" /\ a \in {"ok", "refused"}
                       THEN portfolio ELSE @,
                   !.holdings =
                       IF trading.pc = "portfolio_sell" /\ a = "ok" THEN h ELSE @,
                   !.k = 1,
                   !.calls = Append(@, Call("GET /portfolio", AnswerStatus(a),
                                            trading.headers)),
                   !.faults = FaultsAfter(a)]
    /\ UNCHANGED <<mainVars, recorderVars, workers, report, latency, parser>>

\* execute_trade's effect on the tester and on the control flow: the trade is
\* appended on a 200; the return value is ignored by the caller; an error
\* or a body without 'trade' is an exception nothing catches.
Executed(a, next, symbol, order_type, quantity, held) ==
    trading' = [trading EXCEPT
        !.pc = IF a \in {"ok", "refused"} THEN next ELSE "crashed",
        !.k = @ + 1,
        !.trades_executed =
            IF a = "ok"
            THEN Append(@, [symbol |-> symbol, order_type |-> order_type,
                            quantity |-> quantity])
            ELSE @,
        !.calls = Append(@, TradeCall(AnswerStatus(a), trading.headers, symbol,
                                      order_type, quantity, held)),
        !.faults = FaultsAfter(a)]

\* One pass of the buy loop: random.choice(self.symbols) raises on an empty
\* list.
trading_buy ==
    /\ trading.pc = "buy"
    /\ IF trading.symbols = <<>>
       THEN trading' = [trading EXCEPT !.pc = "crashed"]
       ELSE \E symbol \in Range(trading.symbols), quantity \in {MinBuy, MaxBuy},
               a \in Answers :
               /\ Answered(a)
               /\ Executed(a, IF trading.k < NumBuys THEN "buy" ELSE "portfolio_after",
                           symbol, "buy", quantity, 0)
    /\ UNCHANGED <<mainVars, recorderVars, workers, report, latency, parser>>

\* A sale of the number drawn, whatever is held.
SellQuantityDrawn(qty, drawn) == drawn

\* sell_qty = min(qty, random.randint(5, 15))
SellQuantity(qty, drawn) == IF qty < drawn THEN qty ELSE drawn

\* list(holdings.items())[:2]
HoldingsToSell ==
    SubSeq(trading.holdings, 1,
           IF Len(trading.holdings) < SellsAtMost
           THEN Len(trading.holdings) ELSE SellsAtMost)

\* One pass of the sell loop, or its end.
trading_sell ==
    /\ trading.pc = "sell"
    /\ IF trading.k > Len(HoldingsToSell)
       THEN trading' = [trading EXCEPT !.pc = "portfolio_final"]
       ELSE LET symbol == HoldingsToSell[trading.k][1]
                qty == HoldingsToSell[trading.k][2]
            IN  IF qty > 0
                THEN \E drawn \in {MinSell, MaxSell}, a \in Answers :
                        /\ Answered(a)
                        /\ Executed(a, "sell", symbol, "sell",
                                    SellQuantity(qty, drawn), qty)
                ELSE trading' = [trading EXCEPT !.k = @ + 1]
    /\ UNCHANGED <<mainVars, recorderVars, workers, report, latency, parser>>

\* Step 5: GET /trades; a status other than 200 is passed over in silence.
trading_get_trades ==
    /\ trading.pc = "trades"
    /\ \E a \in Answers :
        /\ Answered(a)
        /\ trading' = [trading EXCEPT
               !.pc = IF a \in {"ok", "refused"} THEN "summary" ELSE "crashed",
               !.calls = Append(@, Call("GET /trades", AnswerStatus(a),
                                        trading.headers)),
               !.faults = FaultsAfter(a)]
    /\ UNCHANGED <<mainVars, recorderVars, workers, report, latency, parser>>

\* Step 6: the summary and its final statements, printed on every run that
\* gets here.
trading_summary ==
    /\ trading.pc = "summary"
    /\ trading' = [trading EXCEPT !.pc = "returned", !.verdict = TRUE]
    /\ UNCHANGED <<mainVars, recorderVars, workers, report, latency, parser>>

NextTrading ==
    \/ trading_call
    \/ trading_health
    \/ trading_create_test_user
    \/ trading_get_symbols
    \/ trading_check_portfolio
    \/ trading_buy
    \/ trading_sell
    \/ trading_get_trades
    \/ trading_summary

SpecTrading == Init /\ [][NextTrading]_vars

(* ------------------ main (backend/timestamp_parser.py) ---------------- *)

\* Timestamps a caller may send: two that pandas parses and one it rejects.
TimestampInputs == {"2024-01-01 00:00:00", "2024-01-01 00:00:01", "not a time"}

\* int(pd.to_datetime(timestamp_str).timestamp()) of the parseable ones.
UnixSeconds ==
    ("2024-01-01 00:00:00" :> 1704067200) @@ ("2024-01-01 00:00:01" :> 1704067201)

\* int(datetime.now().timestamp()): the readings of the clock during a run.
Clock == {1793664000, 1793664001}

\* The JSON lists of at most n timestamps.
RECURSIVE TimestampLists(_)
TimestampLists(n) ==
    IF n = 0
    THEN {<<>>}
    ELSE LET shorter == TimestampLists(n - 1)
         IN  shorter \cup {Append(l, t) : l \in shorter, t \in TimestampInputs}

\* What sys.stdin.read() returns: text json.loads rejects, or the JSON text
\* of one timestamp or of a list of timestamps.
StdinInputs ==
    {[json |-> FALSE, shape |-> "none", value |-> <<>>]}
    \cup {[json |-> TRUE, shape |-> "scalar", value |-> <<t>>] : t \in TimestampInputs}
    \cup {[json |-> TRUE, shape |-> "list", value |-> l] : l \in TimestampLists(MaxBatch)}

\* parse_timestamp: the parsed seconds, or the clock's reading when
\* pd.to_datetime raises.
ParseTimestamp(timestamp_str, now) ==
    IF timestamp_str \in DOMAIN UnixSeconds THEN UnixSeconds[timestamp_str] ELSE now

\* main reads stdin and decodes it: json.loads raises on text that is not
\* JSON, before data is bound.
parser_read ==
    /\ parser.pc = "idle"
    /\ \E input \in StdinInputs :
        parser' = [parser EXCEPT
            !.stdin = input,
            !.data = IF input.json THEN input.shape ELSE "unbound",
            !.pc = IF input.json THEN "parse" ELSE "except"]
    /\ UNCHANGED <<mainVars, recorderVars, workers, report, latency, trading>>

\* One call of parse_timestamp: the single one of a scalar input, or the next
\* one of parse_timestamps_batch's loop.
parser_parse ==
    /\ parser.pc = "parse"
    /\ parser.at <= Len(parser.stdin.value)
    /\ \E now \in Clock :
        parser' = [parser EXCEPT
            !.results = Append(@, ParseTimestamp(parser.stdin.value[parser.at], now)),
            !.at = @ + 1]
    /\ UNCHANGED <<mainVars, recorderVars, workers, report, latency, trading>>

\* print(json.dumps(results)), and main returns.
parser_print ==
    /\ parser.pc = "parse"
    /\ parser.at > Len(parser.stdin.value)
    /\ parser' = [parser EXCEPT
           !.stdout = Append(@, [shape |-> parser.data, value |-> parser.results]),
           !.pc = "exited"]
    /\ UNCHANGED <<mainVars, recorderVars, workers, report, latency, trading>>

\* The except block of main: it reads data to choose the fallback's shape;
\* data is unbound when json.loads raised, and the UnboundLocalError leaves
\* main.
parser_except ==
    /\ parser.pc = "except"
    /\ \E now \in Clock :
        parser' =
            IF parser.data = "unbound"
            THEN [parser EXCEPT !.pc = "unhandled"]
            ELSE [parser EXCEPT
                     !.stdout =
                         Append(@, [shape |-> parser.data,
                                    value |-> [n \in 1 .. Len(parser.stdin.value) |-> now]]),
                     !.pc = "exited"]
    /\ UNCHANGED <<mainVars, recorderVars, workers, report, latency, trading>>

NextParser ==
    \/ parser_read
    \/ parser_parse
    \/ parser_print
    \/ parser_except

SpecParser == Init /\ [][NextParser]_vars


(* ======================================================================= *)
(*                               The claims                                *)
(* ======================================================================= *)

LastOutcome == test_results[Len(test_results)]

HasOutcome(check, args) ==
    \E n \in 1 .. Len(test_results) :
        test_results[n].test = TestName(check, args)

ElementsOf(seq) == {seq[n] : n \in 1 .. Len(seq)}

\* The arrivals whose handler has finished: all of them but the one a
\* handler is still building its entry for.
Handled == IF handler.pc = "append" THEN Len(delivered) - 1 ELSE Len(delivered)

(* C1: after any sequence of record_test_result calls by the run, passing  *)
(* or failing, tests_run = tests_passed + tests_failed.                     *)
C1_RunIsPassedPlusFailed == tests_run = tests_passed + tests_failed

C1_Witness ==
    /\ tests_passed > 0
    /\ tests_failed > 0
    /\ tests_run = tests_passed + tests_failed

(* C2: when several workers call record_test_result concurrently no update *)
(* is lost: once N calls have completed, tests_run = N, tests_passed +      *)
(* tests_failed = N and the log holds N entries.                            *)
RECURSIVE CallsCompleted(_)
CallsCompleted(W) ==
    IF W = {} THEN 0
    ELSE LET w == CHOOSE x \in W : TRUE
         IN  workers[w].calls + CallsCompleted(W \ {w})

C2_NoLostUpdate ==
    (\A w \in Workers : workers[w].pc = "idle") =>
        /\ tests_run = CallsCompleted(Workers)
        /\ tests_passed + tests_failed = CallsCompleted(Workers)
        /\ Len(test_results) = CallsCompleted(Workers)

(* C3: whatever the service answers, run_all_tests reaches                  *)
(* print_test_summary: no error of a check leaves the run.                  *)
C3_NoErrorLeavesTheRun == pc # "crashed"

(* C4: a connection error in one probe never prevents a later probe: in a  *)
(* run that reaches the report every variant of every multi-endpoint check *)
(* has an outcome of its own.                                               *)
C4_EveryVariantHasItsOutcome ==
    pc = "done" =>
        /\ \A e \in ElementsOf(ProtectedEndpoints) : HasOutcome("Auth Protection", <<e>>)
        /\ \A e \in ElementsOf(ValidationCases) : HasOutcome("Trade Validation", <<e>>)
        /\ \A e \in ElementsOf(AdminEndpoints) : HasOutcome("Admin Protection", <<e>>)
        /\ \A e \in ElementsOf(ShortsEndpoints) : HasOutcome("Short Positions", <<e>>)
        /\ \A e \in ElementsOf(InvalidEndpoints) : HasOutcome("Invalid Endpoint", <<e>>)
        /\ symbols # <<>> =>
               \A e \in ElementsOf(Intervals) :
                   HasOutcome("Candlestick", <<symbols[1], e>>)

(* C5, as claimed: outcomes are recorded in the order health, symbols,     *)
(* history, candlestick, all authorization-boundary checks (trade,          *)
(* portfolio, trade history, short positions, admin), input validation,    *)
(* leaderboard, realtime, latency; none of a later phase before one of an  *)
(* earlier phase.                                                           *)
ClaimedPhase(check) ==
    CASE check = "Health Endpoint" -> 1
      [] check = "Symbols Endpoint" -> 2
      [] check = "History Endpoint" -> 3
      [] check = "Candlestick" -> 4
      [] check \in {"Auth Protection", "Admin Protection", "Trade History Pagination",
                    "Short Positions", "Short Positions Endpoint"} -> 5
      [] check = "Trade Validation" -> 6
      [] check = "Leaderboard Endpoint" -> 7
      [] check \in {"WebSocket Connection", "WebSocket Market Data",
                    "WebSocket Trading Events"} -> 8
      [] check = "Response Time" -> 10
      [] OTHER -> 0

RecordedOrder ==
    <<{"Health Endpoint"}, {"Symbols Endpoint"}, {"History Endpoint"}, {"Candlestick"},
      {"Auth Protection"}, {"Trade Validation"}, {"Leaderboard Endpoint"},
      {"Admin Protection"}, {"Trade History Pagination"},
      {"Short Positions", "Short Positions Endpoint"}, {"Invalid Endpoint"},
      {"WebSocket Connection"}, {"WebSocket Market Data"},
      {"WebSocket Trading Events"}, {"Response Time"}>>

RecordedPhases ==
    [check \in UNION ElementsOf(RecordedOrder) |->
        CHOOSE n \in 1 .. Len(RecordedOrder) : check \in RecordedOrder[n]]

RecordedPhase(check) == RecordedPhases[check]

C6_OnlyDependentsAreSkipped ==
    (/\ pc \in {"done", "crashed"}
     /\ \E n \in 1 .. Len(test_results) :
            /\ test_results[n].test.check = "Symbols Endpoint"
            /\ ~test_results[n].success)
    => /\ OutcomesOf(test_results, "History Endpoint") = <<>>
       /\ OutcomesOf(test_results, "Candlestick") = <<>>
       /\ OutcomesOf(test_results, "Response Time") = <<>>
       /\ \A c \in {"Health Endpoint", "Auth Protection", "Admin Protection",
                    "Trade History Pagination", "Trade Validation",
                    "Leaderboard Endpoint", "WebSocket Connection"} :
              OutcomesOf(test_results, c) # <<>>

(* C7: the step that records the outcome of an unauthenticated call to a   *)
(* protected endpoint records it passed exactly when the status is in the  *)
(* accepted set, failed for every other status.                             *)
ProtectedChecks ==
    {"Auth Protection", "Admin Protection", "Trade History Pagination",
     "Short Positions"}

RecordsProtectedOutcome ==
    /\ Len(test_results') = Len(test_results) + 1
    /\ test_results'[Len(test_results')].test.check \in ProtectedChecks
    /\ lastResponse'.kind = "http"

C8_BufferIsTheArrivals ==
    /\ websocket_messages =
           [n \in 1 .. (Handled - clearedAt) |->
               [event |-> delivered[clearedAt + n].event,
                data |-> delivered[clearedAt + n].data,
                timestamp |-> clearedAt + n]]
    /\ \A n \in 1 .. Len(websocket_messages) :
           websocket_messages[n].event \in EventKinds

C8_Witness ==
    /\ emitted = <<>>
    /\ Len(websocket_messages) = 2
    /\ websocket_messages[1].event = "historical_data"
    /\ websocket_messages[2].event = "historical_data"
    /\ websocket_messages[1].data = websocket_messages[2].data

(* C9: the market-data check for a subscribed symbol waits the full window *)
(* and then records exactly one outcome: passed when a tick or             *)
(* historical_data event is in the buffer, failed with a message citing    *)
(* the window when none is.                                                 *)
MarketDataReturned ==
    /\ pc \notin {"md_start", "md_join", "md_sleep", "md_leave", "crashed"}
    /\ \E n \in 1 .. Len(emitted) : emitted[n][1] = "join_symbol"

C9_OneMarketDataOutcome ==
    MarketDataReturned =>
        LET outcomes == OutcomesOf(test_results, "WebSocket Market Data")
        IN  /\ Len(outcomes) = 1
            /\ \/ outcomes[1].success
               \/ outcomes[1].message =
                      MessageNum("No market data received in {duration}s",
                                 WebsocketDuration)

(* C10: each realtime check rebinds the buffer to an empty list before its *)
(* wait, and its verdict is decided by the messages that arrived after     *)
(* that: a message received before the clear never influences it.          *)
ClearStep ==
    \/ pc = "md_start" /\ pc' = "md_join"
    \/ pc = "te_start" /\ pc' = "te_sleep"

ArrivedSinceClear(kinds) ==
    \E n \in clearedAt + 1 .. Handled : delivered[n].event \in kinds

C10_ClearIsolatesTheWindow ==
    [][/\ ClearStep => websocket_messages' = <<>>
       /\ (pc = "md_sleep" /\ pc' = "md_leave") =>
              (test_results'[Len(test_results')].success
                  <=> ArrivedSinceClear({"tick", "historical_data"}))
       /\ (pc = "te_sleep" /\ pc' # "te_sleep") =>
              (test_results'[Len(test_results')].success
                  <=> ~ArrivedSinceClear({"portfolio_update"}))]_vars

C10_Witness ==
    /\ pc = "md_leave"
    /\ clearedAt >= 1
    /\ delivered[1].event = "tick"
    /\ Len(delivered) = clearedAt
    /\ ~LastOutcome.success
    /\ LastOutcome.test.check = "WebSocket Market Data"

(* C11: the step that ends the trading-events window records exactly one   *)
(* WebSocket Trading Events outcome, passed exactly when no portfolio_update*)
(* was received since the check's clear; ticks, historical data and         *)
(* leaderboard updates received in the window do not change the verdict.    *)
TradingEventsReturns == pc = "te_sleep" /\ pc' # "te_sleep"

C11_TradingEventsVerdict ==
    [][TradingEventsReturns =>
          /\ Len(test_results') = Len(test_results) + 1
          /\ test_results'[Len(test_results')].test
                 = TestName("WebSocket Trading Events", <<>>)
          /\ test_results'[Len(test_results')].success
                 <=> \A n \in clearedAt + 1 .. Handled :
                         delivered[n].event # "portfolio_update"]_vars

C11_Witness ==
    /\ pc = "ws_disconnect"
    /\ handler.pc = "idle"
    /\ LastOutcome.test.check = "WebSocket Trading Events"
    /\ LastOutcome.success
    /\ \E n \in clearedAt + 1 .. Len(delivered) : delivered[n].event = "tick"
    /\ \E n \in clearedAt + 1 .. Len(delivered) :
           delivered[n].event = "leaderboard_update"

(* C12: the connect step never lets an exception reach run_all_tests: it   *)
(* records exactly one WebSocket Connection outcome, the only one of the    *)
(* run, whose passed flag is the boolean it returns, and it returns true    *)
(* only when the client is connected.                                       *)
ConnectStepReturns == pc = "ws_connect" /\ pc' # "ws_connect"

C12_ConnectReturnsItsOutcome ==
    [][ConnectStepReturns =>
          /\ pc' # "crashed"
          /\ OutcomesOf(test_results, "WebSocket Connection") = <<>>
          /\ Len(test_results') = Len(test_results) + 1
          /\ test_results'[Len(test_results')].test
                 = TestName("WebSocket Connection", <<>>)
          /\ test_results'[Len(test_results')].success = ws_ok'
          /\ ws_ok' => sio' = "connected"]_vars

C12_Witness ==
    /\ pc \in {"perf", "summary"}
    /\ LastOutcome.test.check = "WebSocket Connection"
    /\ ~LastOutcome.success
    /\ ~ws_ok
    /\ sio = "reconnecting"

(* C14: join_symbol and leave_symbol are sent only while the client is     *)
(* connected: a market-data check entered on a client that is not connected *)
(* returns without sending, and one whose connection drops between the      *)
(* connected test and the join sends nothing and records a failed outcome.  *)
C14_SendsOnlyWhileConnected ==
    [][/\ emitted' # emitted => Connected
       /\ (pc = "md_start" /\ pc' # "md_start" /\ ~Connected) =>
              /\ emitted' = emitted
              /\ pc' \notin {"md_join", "md_sleep", "md_leave"}
       /\ (pc = "md_join" /\ pc' # "md_join" /\ ~Connected) =>
              /\ emitted' = emitted
              /\ Len(test_results') = Len(test_results) + 1
              /\ test_results'[Len(test_results')].test
                     = TestName("WebSocket Market Data", <<symbols[1]>>)
              /\ ~test_results'[Len(test_results')].success]_vars

C14_Witness ==
    /\ pc = "te_start"
    /\ sio = "reconnecting"
    /\ emitted = <<>>
    /\ LastOutcome.test.check = "WebSocket Market Data"
    /\ ~LastOutcome.success
    /\ LastOutcome.message = Message("Error")

(* C16: the health check records exactly one Health Endpoint outcome; for a *)
(* 200 response that lacks any of status, connectedUsers, activeSymbols,    *)
(* uptime it is failed and its message names exactly the missing fields,    *)
(* and for a 200 response with all four it is passed.                       *)
HealthReturns == pc = "health" /\ pc' # "health"

C16_HealthOutcome ==
    [][HealthReturns =>
          LET outcomes == OutcomesOf(test_results', "Health Endpoint")
              missing == MissingFields(HealthRequired, lastBody')
          IN  /\ Len(outcomes) = 1
              /\ (lastResponse'.kind = "http" /\ lastResponse'.status = 200) =>
                     IF missing # <<>>
                     THEN /\ ~outcomes[1].success
                          /\ outcomes[1].message = MessageNames("Missing fields", missing)
                     ELSE outcomes[1].success]_vars

(* C17: for each of the four malformed trade requests the validation check *)
(* records exactly one Trade Validation outcome, the only one of that       *)
(* request in the run, passed exactly when the response status is 400 or    *)
(* 401 and failed for every other status and for a connection error.        *)
ValidationStep == pc = "validation" /\ <<pc, i>>' # <<pc, i>>

C17_ValidationVerdict ==
    [][ValidationStep =>
          LET name == TestName("Trade Validation", <<ValidationCases[i]>>)
          IN  /\ ~HasOutcome("Trade Validation", <<ValidationCases[i]>>)
              /\ Len(test_results') = Len(test_results) + 1
              /\ test_results'[Len(test_results')].test = name
              /\ test_results'[Len(test_results')].success
                     <=> /\ lastResponse'.kind = "http"
                         /\ lastResponse'.status \in {400, 401}
              /\ IF i < 4
                 THEN pc' = "validation" /\ i' = i + 1
                 ELSE pc' = "leaderboard"]_vars

C17_Witness ==
    /\ pc = "leaderboard"
    /\ LastOutcome.test = TestName("Trade Validation", <<"Invalid quantity">>)
    /\ LastOutcome.success
    /\ lastResponse = [kind |-> "http", status |-> 400]
    /\ \E n \in 1 .. Len(test_results) :
           /\ test_results[n].test = TestName("Trade Validation", <<"Missing quantity">>)
           /\ ~test_results[n].success

(* C18: every step of the candlestick check records exactly one outcome,   *)
(* that of its own interval, and goes on to the next interval (1m, 5m, 15m, *)
(* 1h, in that order): no response to one interval skips another.           *)
CandlestickStep == pc = "candlestick" /\ <<pc, i>>' # <<pc, i>>

C18_EveryIntervalItsOutcome ==
    [][CandlestickStep =>
          /\ ~HasOutcome("Candlestick", <<symbols[1], Intervals[i]>>)
          /\ Len(test_results') = Len(test_results) + 1
          /\ test_results'[Len(test_results')].test
                 = TestName("Candlestick", <<symbols[1], Intervals[i]>>)
          /\ IF i < Len(Intervals)
             THEN pc' = "candlestick" /\ i' = i + 1
             ELSE pc' = "auth"]_vars

(* C19: a candlestick outcome is passed exactly when the status is 200, the *)
(* body has symbol, interval and data, and every entry of data, at any      *)
(* position, has all six fields (an empty data list passes).                *)
C19_EveryCandleChecked ==
    [][(CandlestickStep /\ pc' # "crashed") =>
          (test_results'[Len(test_results')].success
              <=> /\ lastResponse'.kind = "http"
                  /\ lastResponse'.status = 200
                  /\ MissingFields(<<"symbol", "interval", "data">>, lastBody') = <<>>
                  /\ lastBody'.data.kind = "list"
                  /\ \A n \in 1 .. Len(lastBody'.data.candles) :
                         lastBody'.data.candles[n] = "complete")]_vars

(* C20: the leaderboard check records one Leaderboard Endpoint outcome,    *)
(* passed only when the request with limit=5 was answered, after a 200 list *)
(* to the first request, by a 200 with a list of at most 5 entries.         *)
LeaderboardReturns == pc = "leaderboard" /\ pc' \notin {"leaderboard", "crashed"}

C20_LimitHonoured ==
    [][LeaderboardReturns =>
          /\ Len(test_results') = Len(test_results) + 1
          /\ test_results'[Len(test_results')].test
                 = TestName("Leaderboard Endpoint", <<>>)
          /\ test_results'[Len(test_results')].success =>
                 /\ lastResponse'.kind = "http"
                 /\ lastResponse'.status = 200
                 /\ lastBody'.shape = "list"
                 /\ lastBody'.len <= 5]_vars

(* C21: the run has a concurrency stress phase between the realtime phase   *)
(* and latency sampling: control enters latency sampling only from the      *)
(* stress phase.                                                             *)
C21_StressBeforeLatency ==
    [][(pc' = "perf" /\ pc # "perf") => pc = "stress"]_vars

(* C22: the stress outcome is passed exactly when at least four fifths of   *)
(* the connections succeeded; the run records that outcome, of a check      *)
(* other than the REST, realtime and latency checks, right before the       *)
(* first Response Time outcome.                                              *)
SourceChecks == {t.check : t \in RecordableNames}

C22_StressOutcomeRecorded ==
    \A n \in 1 .. Len(test_results) :
        (/\ test_results[n].test.check = "Response Time"
         /\ (n = 1 \/ test_results[n - 1].test.check # "Response Time"))
        => (n > 1 /\ test_results[n - 1].test.check \notin SourceChecks)

(* C23: latency sampling issues exactly 3 probes to each of the five        *)
(* endpoints and records exactly one Response Time outcome per endpoint,    *)
(* passed exactly when at least one probe returned 200 and the average      *)
(* over the probes that did is below 3000 ms, failed when none did; a probe *)
(* that errors aborts neither the remaining probes nor the remaining        *)
(* endpoints.                                                                *)
Succeeded(q) == q.kind = "http" /\ q.status = 200

RECURSIVE SucceededCount(_)
SucceededCount(probes) ==
    IF probes = <<>> THEN 0
    ELSE (IF Succeeded(Head(probes)) THEN 1 ELSE 0) + SucceededCount(Tail(probes))

RECURSIVE SucceededMs(_)
SucceededMs(probes) ==
    IF probes = <<>> THEN 0
    ELSE (IF Succeeded(Head(probes)) THEN Head(probes).ms ELSE 0)
             + SucceededMs(Tail(probes))

C23_LatencyOutcomes ==
    /\ Len(test_results) = Len(latency.probed)
    /\ latency.pc = "returned" => Len(test_results) = 5
    /\ \A n \in 1 .. Len(test_results) :
        LET probes == latency.probed[n]
        IN  /\ Len(probes) = 3
            /\ n <= 5
            /\ test_results[n].test = TestName("Response Time", <<TimedEndpoints[n]>>)
            /\ test_results[n].success
                   <=> /\ SucceededCount(probes) >= 1
                       /\ SucceededMs(probes) < 3000 * SucceededCount(probes)

C23_Witness ==
    /\ latency.pc = "returned"
    /\ \A k \in 1 .. 3 : latency.probed[1][k].kind = "err"
    /\ ~test_results[1].success
    /\ test_results[2].success

(* C24: the verdict is a function of the success rate alone: fully          *)
(* functional from 90 percent, working well from 75 to below 90, partially  *)
(* working from 60 to below 75, needs fixes below 60; every pair of passed  *)
(* and total, total = 0 included, gets exactly one tier.                    *)
C24_VerdictTier ==
    pc = "done" =>
        LET AtLeast(percent) ==
                tests_run > 0 /\ 100 * tests_passed >= percent * tests_run
        IN  report.verdict =
                IF AtLeast(90) THEN "FULLY FUNCTIONAL"
                ELSE IF AtLeast(75) THEN "WORKING WELL"
                ELSE IF AtLeast(60) THEN "PARTIALLY WORKING"
                ELSE "NEEDS FIXES"

C24_Witness ==
    /\ pc = "done"
    /\ tests_run = 10
    /\ tests_passed = 9
    /\ report.verdict = "FULLY FUNCTIONAL"

(* C25: the success rate is passed / total when anything was recorded and   *)
(* 0 when nothing was; as a fraction of the whole it lies between 0 and 1   *)
(* (print_test_summary holds it as a percentage).                            *)
C25_SuccessRate ==
    pc = "done" =>
        LET rate == report.success_rate
        IN  /\ rate.den > 0
            /\ tests_run > 0 => rate.num * tests_run = 100 * tests_passed * rate.den
            /\ tests_run = 0 => rate.num = 0
            /\ 0 <= rate.num
            /\ rate.num <= 100 * rate.den

C25_Witness ==
    /\ pc = "done"
    /\ tests_run = 0
    /\ report.success_rate.num = 0
    /\ report.verdict = "NEEDS FIXES"

(* C26: in every state of the run tests_run is the number of entries of the *)
(* log, tests_passed the number of passed entries and tests_failed the      *)
(* number of failed ones.                                                    *)
C26_CountersMatchLog ==
    /\ tests_run = Len(test_results)
    /\ tests_passed = Len(SelectSeq(test_results, LAMBDA r : r.success))
    /\ tests_failed = Len(SelectSeq(test_results, LAMBDA r : ~r.success))

C26_Witness ==
    /\ pc = "done"
    /\ tests_passed >= 2
    /\ tests_failed >= 2

(* C27: the log is append-only: over every step the log before is a prefix  *)
(* of the log after, and a step that records an outcome appends exactly     *)
(* one entry.                                                                *)
C27_LogIsAppendOnly ==
    [][/\ Len(test_results') >= Len(test_results)
       /\ SubSeq(test_results', 1, Len(test_results)) = test_results
       /\ Len(test_results') <= Len(test_results) + 1
       /\ tests_run' # tests_run => Len(test_results') = Len(test_results) + 1]_vars

C27_Witness ==
    /\ pc = "done"
    /\ Len(test_results) = 35
    /\ ~test_results[1].success

(* C28: the Market Data outcome of the subscribed symbol is passed only if  *)
(* a tick or historical_data event received in the window carries that      *)
(* symbol; events of other symbols do not make it pass.                     *)
C28_OnlyTheSubscribedSymbolCounts ==
    [][(/\ pc = "md_sleep"
        /\ pc' = "md_leave"
        /\ test_results'[Len(test_results')].success)
       => \E n \in 1 .. Len(websocket_messages) :
              /\ websocket_messages[n].event \in {"tick", "historical_data"}
              /\ websocket_messages[n].data = symbols[1]]_vars

(* C29: no event is lost to the race between a receive handler and a clear  *)
(* of the buffer: an entry whose append completes after the clear is in the *)
(* buffer the check inspects.                                                *)
C29_NoEventLostToTheClear ==
    [][(handler.pc = "append" /\ handler'.pc = "idle")
       => /\ websocket_messages' # <<>>
          /\ websocket_messages'[Len(websocket_messages')] = handler.msg]_vars

(* C30: in the category breakdown of the report every recorded outcome is   *)
(* counted in exactly one of the four categories, so the categories' totals *)
(* sum to the overall total and their passed counts to the overall passed.  *)
RECURSIVE TotalOf(_)
TotalOf(lines) ==
    IF lines = <<>> THEN 0 ELSE Head(lines).total + TotalOf(Tail(lines))

RECURSIVE PassedOf(_)
PassedOf(lines) ==
    IF lines = <<>> THEN 0 ELSE Head(lines).passed + PassedOf(Tail(lines))

C30_CategoriesPartitionTheLog ==
    pc = "done" =>
        /\ \A n \in 1 .. Len(test_results) :
               Cardinality({c \in 1 .. Len(categories) :
                               test_results[n] \in Range(categories[c].tests)}) = 1
        /\ TotalOf(report.categories) = report.total
        /\ PassedOf(report.categories) = report.passed

(* C31: every join_symbol the harness sends is followed by a leave_symbol   *)
(* of the same symbol before the disconnect, whether the market-data check  *)
(* passed or failed, so no subscription is left once the realtime phase is  *)
(* over and when the report is printed.                                      *)
C31_EveryJoinIsLeft ==
    pc \in {"perf", "summary", "done"} =>
        \A n \in 1 .. Len(emitted) :
            emitted[n][1] = "join_symbol" =>
                \E m \in n + 1 .. Len(emitted) :
                    emitted[m] = <<"leave_symbol", emitted[n][2]>>

(* C32: run_trading_test issues no POST /trade unless, in this order, the   *)
(* health check returned 200, the test user was created and its token       *)
(* stored, and the symbols were retrieved; every trade carries that token   *)
(* and a symbol of the retrieved list, and every sell is for a held symbol  *)
(* with 0 < quantity <= the quantity held.                                   *)
TradeIsGated(n) ==
    \E h \in 1 .. n, c \in 1 .. n, g \in 1 .. n :
        /\ h < c
        /\ c < g
        /\ g < n
        /\ trading.calls[h].req = "GET /health"
        /\ trading.calls[h].status = 200
        /\ trading.calls[c].req = "POST /test/create-test-user"
        /\ trading.calls[c].status = 200
        /\ trading.calls[g].req = "GET /symbols"
        /\ trading.calls[g].status = 200

TradeIsAuthorised(n) ==
    /\ trading.token \in Tokens
    /\ trading.calls[n].token = trading.token

SellIsCovered(n) ==
    trading.calls[n].order_type = "sell" =>
        /\ \E k \in 1 .. Len(trading.holdings) :
               trading.holdings[k] = <<trading.calls[n].symbol, trading.calls[n].held>>
        /\ 0 < trading.calls[n].quantity
        /\ trading.calls[n].quantity <= trading.calls[n].held

C32_TradesAreGated ==
    \A n \in 1 .. Len(trading.calls) :
        trading.calls[n].req = "POST /trade" =>
            /\ TradeIsGated(n)
            /\ TradeIsAuthorised(n)
            /\ trading.calls[n].symbol \in Range(trading.symbols)
            /\ SellIsCovered(n)

(* C32, as the code has it: the same, but only a buy takes its symbol from  *)
(* the retrieved list; a sell takes it from the holdings the portfolio      *)
(* response reports, which need not be in that list.                        *)
C32_TradesAreGatedBuysListed ==
    \A n \in 1 .. Len(trading.calls) :
        trading.calls[n].req = "POST /trade" =>
            /\ TradeIsGated(n)
            /\ TradeIsAuthorised(n)
            /\ trading.calls[n].order_type = "buy" =>
                   trading.calls[n].symbol \in Range(trading.symbols)
            /\ SellIsCovered(n)

C32_Witness ==
    /\ trading.pc = "returned"
    /\ \E n \in 1 .. Len(trading.calls) :
           /\ trading.calls[n].order_type = "sell"
           /\ trading.calls[n].symbol = "RELIANCE"
           /\ trading.calls[n].quantity = 15
    /\ \E n \in 1 .. Len(trading.calls) :
           /\ trading.calls[n].order_type = "buy"
           /\ trading.calls[n].status = 400

(* C33: run_trading_test prints its final success statements only when      *)
(* every trade it attempted returned 200 and the trade history was          *)
(* retrieved with status 200.                                                *)
C33_VerdictOnlyAfterSuccess ==
    trading.verdict =>
        /\ \A n \in 1 .. Len(trading.calls) :
               trading.calls[n].req = "POST /trade" => trading.calls[n].status = 200
        /\ \E n \in 1 .. Len(trading.calls) :
               /\ trading.calls[n].req = "GET /trades"
               /\ trading.calls[n].status = 200

(* C34: the timestamp parser always writes exactly one JSON value to stdout *)
(* and never ends with an unhandled error: the parsed result for valid      *)
(* input (a list of the same length and order for a list), and a            *)
(* current-time fallback of the matching shape when a timestamp cannot be   *)
(* parsed or stdin is not valid JSON.                                        *)
C34_AlwaysOneJsonValue ==
    /\ parser.pc # "unhandled"
    /\ parser.pc = "exited" =>
        /\ Len(parser.stdout) = 1
        /\ LET out == parser.stdout[1]
               input == parser.stdin
           IN  /\ out.shape = IF input.shape = "list" THEN "list" ELSE "scalar"
               /\ Len(out.value) = IF input.json THEN Len(input.value) ELSE 1
               /\ \A n \in 1 .. Len(out.value) :
                      IF input.json /\ input.value[n] \in DOMAIN UnixSeconds
                      THEN out.value[n] = UnixSeconds[input.value[n]]
                      ELSE out.value[n] \in Clock

====
